---------------------------- MODULE Spec2Model ----------------------------
(***************************************************************************)
(* Claims management service: policyholders, policies and claims kept in   *)
(* one store, and the use-cases of ClaimsService (src/claims_service.py)   *)
(* acting on it.  Every use-case is one atomic action: it reads the clock  *)
(* once, runs the checks of the code in the code's order, and either       *)
(* commits its write or rolls back and raises.                             *)
(*                                                                         *)
(* The SQLAlchemy session is a collaborator outside the repository: its    *)
(* flush, commit and queries are modelled by their contract, each either   *)
(* succeeding or raising SQLAlchemyError (the input gw of an action), and  *)
(* rollback discards every uncommitted write.                              *)
(*                                                                         *)
(* Time is counted in ticks, TicksPerDay ticks to a calendar day; a        *)
(* timestamp is a tick (UTC), a date is a day number.  The last tick of a  *)
(* day stands for datetime.max.time() of that day.                         *)
(***************************************************************************)
EXTENDS Integers, Sequences, FiniteSets, TLC

VARIABLES
    policyholders,  \* table policyholders: identity -> row
    policies,       \* table policies: identity -> row
    claims,         \* table claims: identity -> row
    documents,      \* table claim_documents: identity -> row
    issued,         \* how many identities uuid4() has given out, per table
    now,            \* the clock, in ticks
    last,           \* the use-case that ran last, its inputs and its outcome,
                    \* until the caller takes it; Idle between two use-cases
    calls,          \* the use-cases in flight in other sessions: request ->
                    \* where it is and what its session has read
    storage         \* InMemoryRepository._storage: identity -> entity

vars ==
    <<policyholders, policies, claims, documents, issued, now, last, calls,
      storage>>

\* ------------------------------------------------------------------ bounds
MaxPolicyholders == 1
MaxPolicies == 1
MaxClaims == 1
MaxNow == 2
TicksPerDay == 2
MaxAmount == 2
MaxOwned == 2

\* ------------------------------------------------------------- enumerations
ClaimStatus ==
    {"SUBMITTED", "UNDER_REVIEW", "ADDITIONAL_INFO_REQUIRED", "APPROVED",
     "REJECTED", "SETTLED"}

PolicyStatus == {"ACTIVE", "EXPIRED", "CANCELLED", "PENDING"}

\* Optional[T]: None is the empty tuple, a present value x is <<x>>.
None == <<>>
Some(x) == <<x>>

\* ------------------------------------------------------------ input domains
PolicyholderIds == 1..MaxPolicyholders
PolicyIds == 1..MaxPolicies
OwnedIds == 1..MaxOwned
ClaimIds == 1..MaxClaims
AdjusterIds == {"adj1"}
Dates == -1..(MaxNow \div TicksPerDay) + 1
Ticks == 0..MaxNow
Amounts == 0..MaxAmount
CoverageInputs == -1..MaxAmount
PremiumInputs == -1..1
DeductibleInputs == -1..1

\* Text is a tuple of characters.
Texts == {<<>>, <<" ">>, <<"a">>}

\* --------------------------------------------------------------- pure helpers
\* datetime.combine(d, datetime.min.time(), tzinfo=utc)
StartOfDay(d) == d * TicksPerDay

\* datetime.combine(d, datetime.max.time(), tzinfo=utc)
EndOfDay(d) == d * TicksPerDay + (TicksPerDay - 1)

\* date.today()
Today(t) == t \div TicksPerDay

\* str.strip(): leading and trailing whitespace removed.
RECURSIVE LStrip(_)
LStrip(s) == IF s # <<>> /\ Head(s) = " " THEN LStrip(Tail(s)) ELSE s

RECURSIVE RStrip(_)
RStrip(s) ==
    IF s # <<>> /\ s[Len(s)] = " " THEN RStrip(SubSeq(s, 1, Len(s) - 1)) ELSE s

Strip(s) == RStrip(LStrip(s))

\* str(uuid): 36 characters, hyphens at 9, 14, 19 and 24, the version digit
\* of uuid4 at 15; the model's identities differ in their first digit.
UuidStr(id) ==
    [i \in 1..36 |->
        IF i \in {9, 14, 19, 24} THEN "-"
        ELSE IF i = 15 THEN "4"
        ELSE IF i = 1 THEN <<"1", "2", "3", "4", "5", "6", "7", "8">>[id]
        ELSE "0"]

\* f"POL-{str(temp_id)[:7]}"
PolicyNumber_FirstSeven(id) == <<"POL-">> \o SubSeq(UuidStr(id), 1, 7)

\* f"POL-{str(temp_id)[:8]}"
PolicyNumber(id) == <<"POL-">> \o SubSeq(UuidStr(id), 1, 8)

\* f"CLM-{str(temp_id)[:8]}"
ClaimNumber(id) == <<"CLM-">> \o SubSeq(UuidStr(id), 1, 8)

\* uuid4(): an identity never given out before.
FreshId(table) == issued[table] + 1

\* ------------------------------------------------------------------- errors
NoError == [type |-> "none", msg |-> <<>>]

\* raise ValueError(f"<prefix>: {str(e)}") in a use-case's except clause
Wrapped(prefix, inner) == [type |-> "ValueError", msg |-> <<prefix>> \o inner]

\* SQLAlchemyError caught in PostgresRepository and raised again as ValueError
RepoError(prefix) == <<prefix, "SQLAlchemyError">>

\* SQLAlchemyError of commit or of a query, caught by the use-case itself
SessionError == <<"SQLAlchemyError">>

\* ------------------------------------------------------- schemas.py payloads
\* A payload timestamp: naive (offset None) or aware (offset in ticks east).
Offsets == {None, Some(1)}

IncidentInputs == [wall : -2..MaxNow + 1, offset : Offsets]

\* v.astimezone(pytz.UTC) if v.tzinfo else pytz.UTC.localize(v)
ToUtc(inc) == IF inc.offset = None THEN inc.wall ELSE inc.wall - inc.offset[1]

MaxIncidentDescriptionLen == 1000

\* ClaimCreate: the messages of the fields that fail validation, in field
\* order; the empty tuple when the payload is a valid ClaimCreate.
ClaimCreateErrors(inc, desc, idesc, amt) ==
       (IF ToUtc(inc) > now
            THEN <<"Incident date cannot be in the future">> ELSE <<>>)
    \o (IF Len(desc) < 1 THEN <<"description: min_length">> ELSE <<>>)
    \o (IF Len(idesc) < 1 THEN <<"incident_description: min_length">>
        ELSE IF Len(idesc) > MaxIncidentDescriptionLen
            THEN <<"incident_description: max_length">> ELSE <<>>)
    \o (IF amt <= 0 THEN <<"Amount requested must be positive">> ELSE <<>>)

\* Claim(...) built with the status of a claim already in review.
NewClaim_UnderReview(id, pid, t, desc, idesc, amt) ==
    [id |-> id,
     policy_id |-> pid,
     claim_number |-> ClaimNumber(id),
     incident_date |-> t,
     description |-> desc,
     incident_description |-> idesc,
     amount_requested |-> amt,
     status |-> "UNDER_REVIEW",
     filing_date |-> now,
     assigned_adjuster_id |-> None,
     settlement_amount |-> None,
     settlement_date |-> None,
     notes |-> <<>>,
     created_at |-> now,
     updated_at |-> now]

\* ------------------------------------------------------------ models.py rows
\* Claim(...) as submit_claim builds it, with the column defaults and the
\* created_at that PostgresRepository.create stamps.
NewClaim(id, pid, t, desc, idesc, amt) ==
    [id |-> id,
     policy_id |-> pid,
     claim_number |-> ClaimNumber(id),
     incident_date |-> t,
     description |-> desc,
     incident_description |-> idesc,
     amount_requested |-> amt,
     status |-> "SUBMITTED",
     filing_date |-> now,
     assigned_adjuster_id |-> None,
     settlement_amount |-> None,
     settlement_date |-> None,
     notes |-> <<>>,
     created_at |-> now,
     updated_at |-> now]

\* except without session.rollback(): the pending write stays.
Rollback_KeepsPending(committed, pending) == pending

\* await self.session.rollback(): the table as committed; the writes the
\* session flushed or still holds are discarded.
Rollback(committed, pending) == committed

\* A table with one row written or replaced.
Put(table, id, row) ==
    [i \in DOMAIN table \cup {id} |-> IF i = id THEN row ELSE table[i]]

\* ------------------------------------------------------ what last records
Idle ==
    [op |-> "idle", args |-> None, gw |-> "ok", outcome |-> "returned",
     err |-> NoError, id |-> 0, pre |-> None]

Returned(op, args, gw, id, pre) ==
    [op |-> op, args |-> args, gw |-> gw, outcome |-> "returned",
     err |-> NoError, id |-> id, pre |-> pre]

\* A use-case raising where the code returns None or False.
Absent_Raised(op, args, gw) ==
    [op |-> op, args |-> args, gw |-> gw, outcome |-> "raised",
     err |-> [type |-> "ValueError", msg |-> <<"not found">>], id |-> 0,
     pre |-> None]

Absent(op, args, gw) ==
    [op |-> op, args |-> args, gw |-> gw, outcome |-> "absent",
     err |-> NoError, id |-> 0, pre |-> None]

Raised(op, args, gw, err, pre) ==
    [op |-> op, args |-> args, gw |-> gw, outcome |-> "raised",
     err |-> err, id |-> 0, pre |-> pre]

\* The payload never became a schema object: the use-case was not entered.
Rejected(op, args, gw, msgs) ==
    [op |-> op, args |-> args, gw |-> gw, outcome |-> "rejected",
     err |-> [type |-> "ValidationError", msg |-> msgs], id |-> 0,
     pre |-> None]

\* --------------------------------------------------------------- Init
\* The requests that other sessions serve while the store is in use.
Procs == {1, 2}

\* A request that has not started.
NoCall ==
    [pc |-> "none", op |-> "none", args |-> None, snap |-> None,
     found |-> None, outcome |-> "none", err |-> NoError]

Init ==
    /\ policyholders = <<>>
    /\ policies = <<>>
    /\ claims = <<>>
    /\ documents = <<>>
    /\ issued = [policyholder |-> 0, policy |-> 0, claim |-> 0]
    /\ now = 0
    /\ last = Idle
    /\ calls = [p \in Procs |-> NoCall]
    /\ storage = <<>>

\* Time passes between two use-cases.
Tick ==
    /\ now < MaxNow
    /\ now' = now + 1
    /\ UNCHANGED
           <<policyholders, policies, claims, documents, issued, last, calls,
             storage>>

\* The caller takes the outcome of the use-case; the next one may start.
Return ==
    /\ last # Idle
    /\ last' = Idle
    /\ UNCHANGED
           <<policyholders, policies, claims, documents, issued, now, calls,
             storage>>

\* ------------------------------------------------------- create_policyholder
\* PolicyholderBase.validate_birth_date
PolicyholderCreateErrors(dob) ==
    IF dob >= Today(now) THEN <<"Birth date cannot be in the future">> ELSE <<>>

NewPolicyholder(id, dob) ==
    [id |-> id, date_of_birth |-> dob, created_at |-> now, updated_at |-> now]

CreatePolicyholderGw == {"ok", "create_fails", "commit_fails"}

CreatePolicyholder(dob, gw) ==
    LET op == "create_policyholder"
        args == [date_of_birth |-> dob]
        id == FreshId("policyholder")
        prefix == "Failed to create policyholder: "
    IN  /\ UNCHANGED <<policies, claims, documents, now, calls, storage>>
        /\ IF PolicyholderCreateErrors(dob) # <<>>
             THEN /\ last' = Rejected(op, args, gw, PolicyholderCreateErrors(dob))
                  /\ UNCHANGED <<policyholders, issued>>
           ELSE IF dob >= Today(now)
             THEN /\ last' = Raised(op, args, gw,
                                Wrapped(prefix, <<"Invalid date of birth">>), None)
                  /\ UNCHANGED <<policyholders, issued>>
           ELSE IF gw = "create_fails"
             THEN /\ last' = Raised(op, args, gw,
                        Wrapped(prefix, RepoError("Failed to create entity: ")),
                        None)
                  /\ policyholders' = Rollback(policyholders,
                        Put(policyholders, id, NewPolicyholder(id, dob)))
                  /\ UNCHANGED issued
           ELSE IF gw = "commit_fails"
             THEN /\ last' = Raised(op, args, gw, Wrapped(prefix, SessionError),
                                    None)
                  /\ policyholders' = Rollback(policyholders,
                        Put(policyholders, id, NewPolicyholder(id, dob)))
                  /\ UNCHANGED issued
           ELSE /\ policyholders' = Put(policyholders, id, NewPolicyholder(id, dob))
                /\ issued' = [issued EXCEPT !.policyholder = id]
                /\ last' = Returned(op, args, gw, id, None)

UpdatePolicyholderGw == {"ok", "lookup_fails", "update_fails", "commit_fails"}

\* The row after session.merge(policyholder): the fields of the object that
\* was passed in, updated_at stamped by the use-case and by the repository.
MergedPolicyholder(existing, dob) ==
    [existing EXCEPT !.date_of_birth = dob, !.updated_at = now]

\* update_policyholder(policyholder), the object carrying identity hid and
\* date of birth dob.
UpdatePolicyholder(hid, dob, gw) ==
    LET op == "update_policyholder"
        args == [id |-> hid, date_of_birth |-> dob]
        prefix == "Failed to update policyholder: "
        pre == Some(policyholders)
    IN  /\ UNCHANGED <<policies, claims, documents, issued, now, calls,
                       storage>>
        /\ IF dob >= Today(now)
             THEN /\ last' = Raised(op, args, gw,
                                Wrapped(prefix, <<"Invalid date of birth">>), pre)
                  /\ UNCHANGED policyholders
           ELSE IF gw = "lookup_fails"
             THEN /\ last' = Raised(op, args, gw,
                        Wrapped(prefix, <<"Failed to get policyholder: ">>
                                        \o SessionError), pre)
                  /\ UNCHANGED policyholders
           ELSE IF hid \notin DOMAIN policyholders
             THEN /\ last' = [Absent(op, args, gw) EXCEPT !.pre = pre]
                  /\ UNCHANGED policyholders
           ELSE IF gw = "update_fails"
             THEN /\ last' = Raised(op, args, gw,
                        Wrapped(prefix, RepoError("Failed to update entity: ")),
                        pre)
                  /\ policyholders' = Rollback(policyholders,
                        Put(policyholders, hid,
                            MergedPolicyholder(policyholders[hid], dob)))
           ELSE IF gw = "commit_fails"
             THEN /\ last' = Raised(op, args, gw, Wrapped(prefix, SessionError),
                                    pre)
                  /\ policyholders' = Rollback(policyholders,
                        Put(policyholders, hid,
                            MergedPolicyholder(policyholders[hid], dob)))
           ELSE /\ policyholders' = Put(policyholders, hid,
                        MergedPolicyholder(policyholders[hid], dob))
                /\ last' = Returned(op, args, gw, hid, pre)

\* PolicyBase.validate_dates comparing with < in the place of <=.
PolicyCreateErrors_StrictlyBefore(start, end, cov, prem, ded) ==
       (IF end < start THEN <<"End date must be after start date">> ELSE <<>>)
    \o (IF cov < 0 THEN <<"coverage_amount: Amount cannot be negative">> ELSE <<>>)
    \o (IF prem < 0 THEN <<"premium: Amount cannot be negative">> ELSE <<>>)
    \o (IF ded < 0 THEN <<"deductible: Amount cannot be negative">> ELSE <<>>)

\* ------------------------------------------------------------- create_policy
\* PolicyBase.validate_dates and validate_amounts, in field order.
PolicyCreateErrors(start, end, cov, prem, ded) ==
       (IF end <= start THEN <<"End date must be after start date">> ELSE <<>>)
    \o (IF cov < 0 THEN <<"coverage_amount: Amount cannot be negative">> ELSE <<>>)
    \o (IF prem < 0 THEN <<"premium: Amount cannot be negative">> ELSE <<>>)
    \o (IF ded < 0 THEN <<"deductible: Amount cannot be negative">> ELSE <<>>)

\* create_policy without the lookup of the policyholder.
CreatePolicyError_NoHolderCheck(hid, start, end, cov, prem, ded) ==
    IF end <= start THEN <<"End date must be after start date">>
    ELSE IF cov < 0 THEN <<"coverage_amount cannot be negative">>
    ELSE IF prem < 0 THEN <<"premium cannot be negative">>
    ELSE IF ded < 0 THEN <<"deductible cannot be negative">>
    ELSE IF start >= end THEN <<"End date must be after start date">>
    ELSE IF cov <= 0 \/ prem <= 0
        THEN <<"Coverage amount and premium must be positive">>
    ELSE IF ded < 0 THEN <<"Deductible cannot be negative">>
    ELSE <<>>

\* The first check of create_policy that fails, as the message raised inside
\* the try block: Policy(...) runs the validators of models.Policy while it
\* sets its fields (end_date, then the amounts), then come the checks of the
\* use-case.  The empty tuple when none fails.
CreatePolicyError(hid, start, end, cov, prem, ded) ==
    IF hid \notin DOMAIN policyholders THEN <<"Policyholder not found">>
    ELSE IF end <= start THEN <<"End date must be after start date">>
    ELSE IF cov < 0 THEN <<"coverage_amount cannot be negative">>
    ELSE IF prem < 0 THEN <<"premium cannot be negative">>
    ELSE IF ded < 0 THEN <<"deductible cannot be negative">>
    ELSE IF start >= end THEN <<"End date must be after start date">>
    ELSE IF cov <= 0 \/ prem <= 0
        THEN <<"Coverage amount and premium must be positive">>
    ELSE IF ded < 0 THEN <<"Deductible cannot be negative">>
    ELSE <<>>

\* Policy(...) built without status=PolicyStatus.ACTIVE: the policy keeps
\* the default of the payload.
NewPolicy_Pending(id, hid, start, end, cov, prem, ded) ==
    [id |-> id,
     policyholder_id |-> hid,
     policy_number |-> PolicyNumber(id),
     start_date |-> start,
     end_date |-> end,
     coverage_amount |-> cov,
     premium |-> prem,
     deductible |-> ded,
     status |-> "PENDING",
     created_at |-> now,
     updated_at |-> now]

NewPolicy(id, hid, start, end, cov, prem, ded) ==
    [id |-> id,
     policyholder_id |-> hid,
     policy_number |-> PolicyNumber(id),
     start_date |-> start,
     end_date |-> end,
     coverage_amount |-> cov,
     premium |-> prem,
     deductible |-> ded,
     status |-> "ACTIVE",
     created_at |-> now,
     updated_at |-> now]

CreatePolicyGw == {"ok", "lookup_fails", "create_fails", "commit_fails"}

\* create_policy(policy_data), policy_data a PolicyCreate payload whose field
\* status is status: the use-case builds the Policy with PolicyStatus.ACTIVE
\* and never reads policy_data.status.
CreatePolicyPayload(hid, start, end, cov, prem, ded, status, gw) ==
    LET op == "create_policy"
        args == [policyholder_id |-> hid, start_date |-> start,
                 end_date |-> end, coverage_amount |-> cov, premium |-> prem,
                 deductible |-> ded, status |-> status]
        id == FreshId("policy")
        prefix == "Failed to create policy: "
        schema == PolicyCreateErrors(start, end, cov, prem, ded)
        failed == CreatePolicyError(hid, start, end, cov, prem, ded)
        pre == Some(policies)
    IN  /\ UNCHANGED <<policyholders, claims, documents, now, calls, storage>>
        /\ IF schema # <<>>
             THEN /\ last' = [Rejected(op, args, gw, schema) EXCEPT !.pre = pre]
                  /\ UNCHANGED <<policies, issued>>
           ELSE IF gw = "lookup_fails"
             THEN /\ last' = Raised(op, args, gw,
                        Wrapped(prefix, <<"Failed to get policyholder: ">>
                                        \o SessionError), pre)
                  /\ UNCHANGED <<policies, issued>>
           ELSE IF failed # <<>>
             THEN /\ last' = Raised(op, args, gw, Wrapped(prefix, failed), pre)
                  /\ UNCHANGED <<policies, issued>>
           ELSE IF gw = "create_fails"
             THEN /\ last' = Raised(op, args, gw,
                        Wrapped(prefix, RepoError("Failed to create entity: ")),
                        pre)
                  /\ policies' = Rollback(policies,
                        Put(policies, id, NewPolicy(id, hid, start, end, cov, prem, ded)))
                  /\ UNCHANGED issued
           ELSE IF gw = "commit_fails"
             THEN /\ last' = Raised(op, args, gw, Wrapped(prefix, SessionError),
                                    pre)
                  /\ policies' = Rollback(policies,
                        Put(policies, id, NewPolicy(id, hid, start, end, cov, prem, ded)))
                  /\ UNCHANGED issued
           ELSE /\ policies' =
                        Put(policies, id, NewPolicy(id, hid, start, end, cov, prem, ded))
                /\ issued' = [issued EXCEPT !.policy = id]
                /\ last' = Returned(op, args, gw, id, pre)

\* create_policy with a payload that names no status: PolicyBase gives it
\* the default PolicyStatus.PENDING.
CreatePolicy(hid, start, end, cov, prem, ded, gw) ==
    CreatePolicyPayload(hid, start, end, cov, prem, ded, "PENDING", gw)

\* ------------------------------------------------------------- update_policy
\* PolicyUpdate payloads: a field is unset (None) or set (Some(v)).
UpdateStarts == {None, Some(0), Some(1)}
UpdateEnds == {None, Some(0), Some(1)}
UpdateCoverages == {None, Some(0), Some(1)}
UpdatePremiums == {None, Some(0)}
UpdateDeductibles == {None, Some(-1)}
UpdateStatuses == {None} \cup {Some(st) : st \in PolicyStatus}

PolicyUpdates ==
    [start_date : UpdateStarts, end_date : UpdateEnds,
     coverage_amount : UpdateCoverages, premium : UpdatePremiums,
     deductible : UpdateDeductibles, status : UpdateStatuses]

\* PolicyUpdate.validate_amounts and validate_dates, in field order.
PolicyUpdateErrors(u) ==
       (IF u.start_date # None /\ u.end_date # None
           /\ u.end_date[1] <= u.start_date[1]
            THEN <<"End date must be after start date">> ELSE <<>>)
    \o (IF u.coverage_amount # None /\ u.coverage_amount[1] < 0
            THEN <<"coverage_amount: Amount cannot be negative">> ELSE <<>>)
    \o (IF u.premium # None /\ u.premium[1] < 0
            THEN <<"premium: Amount cannot be negative">> ELSE <<>>)
    \o (IF u.deductible # None /\ u.deductible[1] < 0
            THEN <<"deductible: Amount cannot be negative">> ELSE <<>>)

\* for field, value in policy_data.dict(exclude_unset=True).items():
\*     setattr(existing, field, value)
Patched(policy, u) ==
    [policy EXCEPT
        !.start_date = IF u.start_date = None THEN @ ELSE u.start_date[1],
        !.end_date = IF u.end_date = None THEN @ ELSE u.end_date[1],
        !.coverage_amount =
            IF u.coverage_amount = None THEN @ ELSE u.coverage_amount[1],
        !.premium = IF u.premium = None THEN @ ELSE u.premium[1],
        !.deductible = IF u.deductible = None THEN @ ELSE u.deductible[1],
        !.status = IF u.status = None THEN @ ELSE u.status[1]]

\* The first failure of update_policy on an existing policy: the validators
\* of models.Policy run in each setattr (start_date is set before end_date),
\* then the use-case compares the dates.
UpdatePolicyError(policy, u) ==
    LET patched == Patched(policy, u)
    IN  IF u.end_date # None /\ u.end_date[1] <= patched.start_date
            THEN <<"End date must be after start date">>
        ELSE IF u.coverage_amount # None /\ u.coverage_amount[1] < 0
            THEN <<"coverage_amount cannot be negative">>
        ELSE IF u.premium # None /\ u.premium[1] < 0
            THEN <<"premium cannot be negative">>
        ELSE IF u.deductible # None /\ u.deductible[1] < 0
            THEN <<"deductible cannot be negative">>
        ELSE IF patched.start_date >= patched.end_date
            THEN <<"End date must be after start date">>
        ELSE <<>>

UpdatePolicyGw == {"ok", "lookup_fails", "update_fails", "commit_fails"}

UpdatePolicy(pid, u, gw) ==
    LET op == "update_policy"
        args == [id |-> pid]
        prefix == "Failed to update policy: "
    IN  /\ UNCHANGED <<policyholders, claims, documents, issued, now, calls,
                       storage>>
        /\ IF PolicyUpdateErrors(u) # <<>>
             THEN /\ last' = Rejected(op, args, gw, PolicyUpdateErrors(u))
                  /\ UNCHANGED policies
           ELSE IF gw = "lookup_fails"
             THEN /\ last' = Raised(op, args, gw,
                        Wrapped(prefix, <<"Failed to get policy: ">>
                                        \o SessionError), None)
                  /\ UNCHANGED policies
           ELSE IF pid \notin DOMAIN policies
             THEN /\ last' = Absent(op, args, gw)
                  /\ UNCHANGED policies
           ELSE IF UpdatePolicyError(policies[pid], u) # <<>>
             THEN /\ last' = Raised(op, args, gw,
                        Wrapped(prefix, UpdatePolicyError(policies[pid], u)),
                        None)
                  /\ UNCHANGED policies
           ELSE IF gw = "update_fails"
             THEN /\ last' = Raised(op, args, gw,
                        Wrapped(prefix, RepoError("Failed to update entity: ")),
                        None)
                  /\ policies' = Rollback(policies, Put(policies, pid,
                        [Patched(policies[pid], u) EXCEPT !.updated_at = now]))
           ELSE IF gw = "commit_fails"
             THEN /\ last' = Raised(op, args, gw, Wrapped(prefix, SessionError),
                                    None)
                  /\ policies' = Rollback(policies, Put(policies, pid,
                        [Patched(policies[pid], u) EXCEPT !.updated_at = now]))
           ELSE /\ policies' = Put(policies, pid,
                        [Patched(policies[pid], u) EXCEPT !.updated_at = now])
                /\ last' = Returned(op, args, gw, pid, None)

\* -------------------------------------------------------------- submit_claim
\* policy_start <= new_claim.incident_date <= policy_end, with the end bound
\* taken at the first instant of policy.end_date.
InPolicyPeriod_EndAtMidnight(policy, t) ==
    StartOfDay(policy.start_date) <= t /\ t <= StartOfDay(policy.end_date)

\* policy_start <= new_claim.incident_date <= policy_end
InPolicyPeriod(policy, t) ==
    StartOfDay(policy.start_date) <= t /\ t <= EndOfDay(policy.end_date)

\* not s or len(s.strip()) == 0
Blank(s) == s = <<>> \/ Len(Strip(s)) = 0

\* f"Policy with ID {claim_data.policy_id} not found"
PolicyNotFound(pid) == <<"Policy with ID ">> \o UuidStr(pid) \o <<" not found">>

\* f"Policy {policy.policy_number} is not active. Current status: ..."
PolicyNotActive(policy) ==
    <<"Policy ">> \o policy.policy_number
        \o <<" is not active. Current status: ", policy.status>>

\* f"Claim incident date (...) must be within policy period (... to ...)"
OutsidePolicyPeriod(policy, t) ==
    <<"Claim incident date (", Today(t), ") must be within policy period (",
      policy.start_date, " to ", policy.end_date, ")">>

\* f"Claim amount ({...}) exceeds policy coverage ({...})"
ExceedsCoverage(policy, amt) ==
    <<"Claim amount (", amt, ") exceeds policy coverage (",
      policy.coverage_amount, ")">>

\* submit_claim without "if not policy": the status of None is read.
SubmitClaimError_NoExistenceCheck(pid, t, amt, desc, idesc) ==
    IF pid \notin DOMAIN policies
        THEN <<"'NoneType' object has no attribute 'status'">>
    ELSE IF policies[pid].status # "ACTIVE" THEN PolicyNotActive(policies[pid])
    ELSE IF t > now THEN <<"Incident date cannot be in the future">>
    ELSE IF amt < 0 THEN <<"amount_requested cannot be negative">>
    ELSE IF ~InPolicyPeriod(policies[pid], t)
        THEN OutsidePolicyPeriod(policies[pid], t)
    ELSE IF amt <= 0 THEN <<"Claim amount must be positive">>
    ELSE IF amt > policies[pid].coverage_amount
        THEN ExceedsCoverage(policies[pid], amt)
    ELSE IF Blank(desc) THEN <<"Description is required">>
    ELSE IF Blank(idesc) THEN <<"Incident description is required">>
    ELSE <<>>

\* submit_claim without the comparison with policy.coverage_amount.
SubmitClaimError_NoCoverageCheck(pid, t, amt, desc, idesc) ==
    IF pid \notin DOMAIN policies THEN PolicyNotFound(pid)
    ELSE IF policies[pid].status # "ACTIVE" THEN PolicyNotActive(policies[pid])
    ELSE IF t > now THEN <<"Incident date cannot be in the future">>
    ELSE IF amt < 0 THEN <<"amount_requested cannot be negative">>
    ELSE IF ~InPolicyPeriod(policies[pid], t)
        THEN OutsidePolicyPeriod(policies[pid], t)
    ELSE IF amt <= 0 THEN <<"Claim amount must be positive">>
    ELSE IF Blank(desc) THEN <<"Description is required">>
    ELSE IF Blank(idesc) THEN <<"Incident description is required">>
    ELSE <<>>

\* submit_claim without the check of policy.status.
SubmitClaimError_NoStatusCheck(pid, t, amt, desc, idesc) ==
    IF pid \notin DOMAIN policies THEN PolicyNotFound(pid)
    ELSE IF t > now THEN <<"Incident date cannot be in the future">>
    ELSE IF amt < 0 THEN <<"amount_requested cannot be negative">>
    ELSE IF ~InPolicyPeriod(policies[pid], t)
        THEN OutsidePolicyPeriod(policies[pid], t)
    ELSE IF amt <= 0 THEN <<"Claim amount must be positive">>
    ELSE IF amt > policies[pid].coverage_amount
        THEN ExceedsCoverage(policies[pid], amt)
    ELSE IF Blank(desc) THEN <<"Description is required">>
    ELSE IF Blank(idesc) THEN <<"Incident description is required">>
    ELSE <<>>

\* submit_claim comparing with >= policy.coverage_amount.
SubmitClaimError_ExclusiveCoverage(pid, t, amt, desc, idesc) ==
    IF pid \notin DOMAIN policies THEN PolicyNotFound(pid)
    ELSE IF policies[pid].status # "ACTIVE" THEN PolicyNotActive(policies[pid])
    ELSE IF t > now THEN <<"Incident date cannot be in the future">>
    ELSE IF amt < 0 THEN <<"amount_requested cannot be negative">>
    ELSE IF ~InPolicyPeriod(policies[pid], t)
        THEN OutsidePolicyPeriod(policies[pid], t)
    ELSE IF amt <= 0 THEN <<"Claim amount must be positive">>
    ELSE IF amt >= policies[pid].coverage_amount
        THEN ExceedsCoverage(policies[pid], amt)
    ELSE IF Blank(desc) THEN <<"Description is required">>
    ELSE IF Blank(idesc) THEN <<"Incident description is required">>
    ELSE <<>>

\* submit_claim with the coverage check moved in front of the period check.
SubmitClaimError_CoverageBeforePeriod(pid, t, amt, desc, idesc) ==
    IF pid \notin DOMAIN policies THEN PolicyNotFound(pid)
    ELSE IF policies[pid].status # "ACTIVE" THEN PolicyNotActive(policies[pid])
    ELSE IF t > now THEN <<"Incident date cannot be in the future">>
    ELSE IF amt < 0 THEN <<"amount_requested cannot be negative">>
    ELSE IF amt > policies[pid].coverage_amount
        THEN ExceedsCoverage(policies[pid], amt)
    ELSE IF ~InPolicyPeriod(policies[pid], t)
        THEN OutsidePolicyPeriod(policies[pid], t)
    ELSE IF amt <= 0 THEN <<"Claim amount must be positive">>
    ELSE IF Blank(desc) THEN <<"Description is required">>
    ELSE IF Blank(idesc) THEN <<"Incident description is required">>
    ELSE <<>>

\* submit_claim without the two description checks.
SubmitClaimError_NoDescriptionCheck(pid, t, amt, desc, idesc) ==
    IF pid \notin DOMAIN policies THEN PolicyNotFound(pid)
    ELSE IF policies[pid].status # "ACTIVE" THEN PolicyNotActive(policies[pid])
    ELSE IF t > now THEN <<"Incident date cannot be in the future">>
    ELSE IF amt < 0 THEN <<"amount_requested cannot be negative">>
    ELSE IF ~InPolicyPeriod(policies[pid], t)
        THEN OutsidePolicyPeriod(policies[pid], t)
    ELSE IF amt <= 0 THEN <<"Claim amount must be positive">>
    ELSE IF amt > policies[pid].coverage_amount
        THEN ExceedsCoverage(policies[pid], amt)
    ELSE <<>>

\* The first check of submit_claim that fails, as the message raised inside
\* the try block; the empty tuple when none fails.  t is the incident
\* timestamp in UTC.  Between the status check and the period check,
\* Claim(...) runs the validators of models.Claim while it sets its fields
\* (incident_date before amount_requested).
SubmitClaimError(pid, t, amt, desc, idesc) ==
    IF pid \notin DOMAIN policies THEN PolicyNotFound(pid)
    ELSE IF policies[pid].status # "ACTIVE" THEN PolicyNotActive(policies[pid])
    ELSE IF t > now THEN <<"Incident date cannot be in the future">>
    ELSE IF amt < 0 THEN <<"amount_requested cannot be negative">>
    ELSE IF ~InPolicyPeriod(policies[pid], t)
        THEN OutsidePolicyPeriod(policies[pid], t)
    ELSE IF amt <= 0 THEN <<"Claim amount must be positive">>
    ELSE IF amt > policies[pid].coverage_amount
        THEN ExceedsCoverage(policies[pid], amt)
    ELSE IF Blank(desc) THEN <<"Description is required">>
    ELSE IF Blank(idesc) THEN <<"Incident description is required">>
    ELSE <<>>

SubmitClaimGw ==
    {"ok", "lookup_fails", "create_fails", "commit_fails", "documents_fail"}

SubmitClaim(pid, inc, amt, desc, idesc, gw) ==
    LET op == "submit_claim"
        t == ToUtc(inc)
        args == [policy_id |-> pid, incident_date |-> t,
                 amount_requested |-> amt, description |-> desc,
                 incident_description |-> idesc]
        id == FreshId("claim")
        prefix == "Database error while creating claim: "
        schema == ClaimCreateErrors(inc, desc, idesc, amt)
        failed == SubmitClaimError(pid, t, amt, desc, idesc)
        pre == Some(claims)
    IN  /\ UNCHANGED <<policyholders, policies, documents, now, calls,
                       storage>>
        /\ IF schema # <<>>
             THEN /\ last' = [Rejected(op, args, gw, schema) EXCEPT !.pre = pre]
                  /\ UNCHANGED <<claims, issued>>
           ELSE IF gw = "lookup_fails"
             THEN /\ last' = Raised(op, args, gw, Wrapped(prefix, SessionError),
                                    pre)
                  /\ UNCHANGED <<claims, issued>>
           ELSE IF failed # <<>>
             THEN /\ last' = Raised(op, args, gw, Wrapped(prefix, failed), pre)
                  /\ UNCHANGED <<claims, issued>>
           ELSE IF gw = "create_fails"
             THEN /\ last' = Raised(op, args, gw,
                        Wrapped(prefix, RepoError("Failed to create entity: ")),
                        pre)
                  /\ claims' = Rollback(claims,
                        Put(claims, id, NewClaim(id, pid, t, desc, idesc, amt)))
                  /\ UNCHANGED issued
           ELSE IF gw = "commit_fails"
             THEN /\ last' = Raised(op, args, gw, Wrapped(prefix, SessionError),
                                    pre)
                  /\ claims' = Rollback(claims,
                        Put(claims, id, NewClaim(id, pid, t, desc, idesc, amt)))
                  /\ UNCHANGED issued
           ELSE /\ claims' =
                        Put(claims, id, NewClaim(id, pid, t, desc, idesc, amt))
                /\ issued' = [issued EXCEPT !.claim = id]
                /\ last' =
                     IF gw = "documents_fail"
                        THEN Raised(op, args, gw,
                                Wrapped(prefix,
                                    <<"Failed to get claim documents: ">>
                                    \o SessionError), pre)
                     ELSE Returned(op, args, gw, id, pre)

\* ------------------------------------------------------------- process_claim
OptAdjusters == {None} \cup {Some(a) : a \in AdjusterIds}

\* process_claim without the check on the adjuster.
ProcessClaimError_NoAdjusterCheck(claim, new_status, adjuster_id) ==
    IF new_status = "SETTLED" /\ claim.status # "APPROVED"
        THEN <<"Cannot settle unapproved claim">>
    ELSE <<>>

\* process_claim settling only a claim that has an adjuster.
ProcessClaimError_SettleNeedsAdjuster(claim, new_status, adjuster_id) ==
    IF new_status = "UNDER_REVIEW" /\ adjuster_id = None
        THEN <<"Adjuster ID required for claims under review">>
    ELSE IF new_status = "SETTLED" /\ claim.status # "APPROVED"
        THEN <<"Cannot settle unapproved claim">>
    ELSE IF new_status = "SETTLED" /\ claim.assigned_adjuster_id = None
        THEN <<"Cannot settle a claim without adjuster">>
    ELSE <<>>

\* process_claim without the check on SETTLED.
ProcessClaimError_NoSettleCheck(claim, new_status, adjuster_id) ==
    IF new_status = "UNDER_REVIEW" /\ adjuster_id = None
        THEN <<"Adjuster ID required for claims under review">>
    ELSE <<>>

\* process_claim refusing SETTLED from the three open statuses only.
ProcessClaimError_SettleBlocksOpenOnly(claim, new_status, adjuster_id) ==
    IF new_status = "UNDER_REVIEW" /\ adjuster_id = None
        THEN <<"Adjuster ID required for claims under review">>
    ELSE IF new_status = "SETTLED" /\ claim.status \in
                {"SUBMITTED", "UNDER_REVIEW", "ADDITIONAL_INFO_REQUIRED"}
        THEN <<"Cannot settle unapproved claim">>
    ELSE <<>>

\* process_claim with one more rule: APPROVED only from UNDER_REVIEW.
ProcessClaimError_ApproveNeedsReview(claim, new_status, adjuster_id) ==
    IF new_status = "UNDER_REVIEW" /\ adjuster_id = None
        THEN <<"Adjuster ID required for claims under review">>
    ELSE IF new_status = "SETTLED" /\ claim.status # "APPROVED"
        THEN <<"Cannot settle unapproved claim">>
    ELSE IF new_status = "APPROVED" /\ claim.status # "UNDER_REVIEW"
        THEN <<"Cannot approve a claim that is not under review">>
    ELSE <<>>

\* The check of process_claim that fails on an existing claim, as the
\* message raised inside the try block; the empty tuple when none fails.
ProcessClaimError(claim, new_status, adjuster_id) ==
    IF new_status = "UNDER_REVIEW" /\ adjuster_id = None
        THEN <<"Adjuster ID required for claims under review">>
    ELSE IF new_status = "SETTLED" /\ claim.status # "APPROVED"
        THEN <<"Cannot settle unapproved claim">>
    ELSE <<>>

\* process_claim without the assignment of assigned_adjuster_id.
ProcessedClaim_AdjusterNotStored(claim, new_status, adjuster_id) ==
    [claim EXCEPT
        !.status = new_status,
        !.updated_at = now,
        !.settlement_date = IF new_status = "SETTLED" THEN Some(now) ELSE @]

\* process_claim without the stamp of the settlement.
ProcessedClaim_NoSettlementDate(claim, new_status, adjuster_id) ==
    [claim EXCEPT
        !.assigned_adjuster_id =
            IF new_status = "UNDER_REVIEW" THEN adjuster_id ELSE @,
        !.status = new_status,
        !.updated_at = now]

\* process_claim and PostgresRepository.update leaving updated_at alone.
ProcessedClaim_StaleUpdatedAt(claim, new_status, adjuster_id) ==
    [claim EXCEPT
        !.assigned_adjuster_id =
            IF new_status = "UNDER_REVIEW" THEN adjuster_id ELSE @,
        !.status = new_status,
        !.settlement_date = IF new_status = "SETTLED" THEN Some(now) ELSE @]

\* process_claim storing the adjuster of every request.
ProcessedClaim_AdjusterAlwaysStored(claim, new_status, adjuster_id) ==
    [claim EXCEPT
        !.assigned_adjuster_id = adjuster_id,
        !.status = new_status,
        !.updated_at = now,
        !.settlement_date = IF new_status = "SETTLED" THEN Some(now) ELSE @]

\* process_claim writing the amount requested as the settlement of a
\* SETTLED claim.
ProcessedClaim_SettlesRequested(claim, new_status, adjuster_id) ==
    [claim EXCEPT
        !.assigned_adjuster_id =
            IF new_status = "UNDER_REVIEW" THEN adjuster_id ELSE @,
        !.status = new_status,
        !.updated_at = now,
        !.settlement_date = IF new_status = "SETTLED" THEN Some(now) ELSE @,
        !.settlement_amount =
            IF new_status = "SETTLED" THEN Some(claim.amount_requested) ELSE @]

\* The claim as process_claim leaves it before the update.
ProcessedClaim(claim, new_status, adjuster_id) ==
    [claim EXCEPT
        !.assigned_adjuster_id =
            IF new_status = "UNDER_REVIEW" THEN adjuster_id ELSE @,
        !.status = new_status,
        !.updated_at = now,
        !.settlement_date = IF new_status = "SETTLED" THEN Some(now) ELSE @]

ProcessClaimGw == {"ok", "lookup_fails", "update_fails", "commit_fails"}

\* ClaimProcess.validate_settlement_amount
ClaimProcessErrors(settlement_amount) ==
    IF settlement_amount # None /\ settlement_amount[1] < 0
      THEN <<"Settlement amount cannot be negative">>
    ELSE <<>>

\* process_claim(claim_id, process_data), process_data a ClaimProcess payload
\* with the fields new_status, adjuster_id, notes and settlement_amount: the
\* use-case reads the first two only.
ProcessClaimPayload(cid, new_status, adjuster_id, notes, amount, gw) ==
    LET op == "process_claim"
        args == [claim_id |-> cid, new_status |-> new_status,
                 adjuster_id |-> adjuster_id, notes |-> notes,
                 settlement_amount |-> amount]
        prefix == "Failed to process claim: "
        pre == IF cid \in DOMAIN claims THEN Some(claims[cid]) ELSE None
    IN  /\ UNCHANGED <<policyholders, policies, documents, issued, now, calls,
                       storage>>
        /\ IF ClaimProcessErrors(amount) # <<>>
             THEN /\ last' = [Rejected(op, args, gw,
                                ClaimProcessErrors(amount))
                                EXCEPT !.pre = pre]
                  /\ UNCHANGED claims
           ELSE IF gw = "lookup_fails"
             THEN /\ last' = Raised(op, args, gw,
                        Wrapped(prefix, <<"Failed to get claim: ">>
                                        \o SessionError), pre)
                  /\ UNCHANGED claims
           ELSE IF cid \notin DOMAIN claims
             THEN /\ last' = Absent(op, args, gw)
                  /\ UNCHANGED claims
           ELSE IF ProcessClaimError(claims[cid], new_status, adjuster_id) # <<>>
             THEN /\ last' = Raised(op, args, gw,
                        Wrapped(prefix,
                            ProcessClaimError(claims[cid], new_status, adjuster_id)),
                        pre)
                  /\ UNCHANGED claims
           ELSE IF gw = "update_fails"
             THEN /\ last' = Raised(op, args, gw,
                        Wrapped(prefix, RepoError("Failed to update entity: ")),
                        pre)
                  /\ claims' = Rollback(claims, Put(claims, cid,
                        ProcessedClaim(claims[cid], new_status, adjuster_id)))
           ELSE IF gw = "commit_fails"
             THEN /\ last' = Raised(op, args, gw, Wrapped(prefix, SessionError),
                                    pre)
                  /\ claims' = Rollback(claims, Put(claims, cid,
                        ProcessedClaim(claims[cid], new_status, adjuster_id)))
           ELSE /\ claims' = Put(claims, cid,
                        ProcessedClaim(claims[cid], new_status, adjuster_id))
                /\ last' = Returned(op, args, gw, cid, pre)

\* process_claim with a payload that carries neither notes nor a
\* settlement_amount.
ProcessClaim(cid, new_status, adjuster_id, gw) ==
    ProcessClaimPayload(cid, new_status, adjuster_id, None, None, gw)

\* --------------------------------------------------------- the three deletes
\* The rows of a table other than those named.
Without(table, ids) == [i \in DOMAIN table \ ids |-> table[i]]

\* Everything in the four tables, as a use-case finds it.
Store ==
    [policyholders |-> policyholders, policies |-> policies,
     claims |-> claims, documents |-> documents]

\* ForeignKey('policyholders.id', ondelete='CASCADE'): the policies that go
\* with their policyholders.
PoliciesOf(hids) ==
    {p \in DOMAIN policies : policies[p].policyholder_id \in hids}

\* ForeignKey('policies.id') on claims, with no ON DELETE rule acted on.
ClaimsOf_NoCascade(pids) == {}

\* ForeignKey('policies.id', ondelete='CASCADE'): the claims that go with
\* their policies.
ClaimsOf(pids) == {c \in DOMAIN claims : claims[c].policy_id \in pids}

\* ForeignKey('claims.id', ondelete='CASCADE'): the documents that go with
\* their claims.
DocumentsOf(cids) == {d \in DOMAIN documents : documents[d].claim_id \in cids}

\* select(ClaimDocument).where(ClaimDocument.claim_id == claim_id)
GetClaimDocuments(cid) == DocumentsOf({cid})

\* result.scalar_one_or_none() of a query with these rows: the message of
\* MultipleResultsFound when there are several.
MultipleRows == <<"Multiple rows were found when one or none was required">>

DeleteGw == {"ok", "lookup_fails", "delete_fails", "commit_fails"}

\* delete_claim refusing the open statuses only: APPROVED is let through.
DeleteClaimError_ApprovedDeletable(claim) ==
    IF claim.status \notin {"REJECTED", "SETTLED", "APPROVED"}
        THEN <<"Can only delete rejected or settled claims">>
    ELSE <<>>

\* claim.status not in [ClaimStatus.REJECTED, ClaimStatus.SETTLED]
DeleteClaimError(claim) ==
    IF claim.status \notin {"REJECTED", "SETTLED"}
        THEN <<"Can only delete rejected or settled claims">>
    ELSE <<>>

DeleteClaim(cid, gw) ==
    LET op == "delete_claim"
        args == [claim_id |-> cid]
        prefix == "Failed to delete claim: "
        pre == Some(Store)
        gone == {cid}
    IN  /\ UNCHANGED <<policyholders, policies, issued, now, calls, storage>>
        /\ IF gw = "lookup_fails"
             THEN /\ last' = Raised(op, args, gw,
                        Wrapped(prefix, <<"Failed to get claim: ">>
                                        \o SessionError), pre)
                  /\ UNCHANGED <<claims, documents>>
           ELSE IF cid \notin DOMAIN claims
             THEN /\ last' = [Absent(op, args, gw) EXCEPT !.pre = pre]
                  /\ UNCHANGED <<claims, documents>>
           ELSE IF DeleteClaimError(claims[cid]) # <<>>
             THEN /\ last' = Raised(op, args, gw,
                        Wrapped(prefix, DeleteClaimError(claims[cid])), pre)
                  /\ UNCHANGED <<claims, documents>>
           ELSE IF gw \in {"delete_fails", "commit_fails"}
             THEN /\ last' = Raised(op, args, gw,
                        Wrapped(prefix,
                            IF gw = "delete_fails"
                                THEN RepoError("Failed to delete entity: ")
                                ELSE SessionError),
                        pre)
                  /\ claims' = Rollback(claims, Without(claims, gone))
                  /\ documents' = Rollback(documents,
                        Without(documents, DocumentsOf(gone)))
           ELSE /\ claims' = Without(claims, gone)
                /\ documents' = Without(documents, DocumentsOf(gone))
                /\ last' = Returned(op, args, gw, cid, pre)

\* The claims delete_policy looks for, with UNDER_REVIEW left out.
ActiveClaims_SubmittedOnly(pid) ==
    {c \in DOMAIN claims :
        claims[c].policy_id = pid /\ claims[c].status \in {"SUBMITTED"}}

\* select(Claim).where(Claim.policy_id == policy_id,
\*     Claim.status.in_([ClaimStatus.SUBMITTED, ClaimStatus.UNDER_REVIEW]))
ActiveClaims(pid) ==
    {c \in DOMAIN claims :
        /\ claims[c].policy_id = pid
        /\ claims[c].status \in {"SUBMITTED", "UNDER_REVIEW"}}

\* delete_policy without the look at the claims of the policy.
DeletePolicyError_NoActiveCheck(pid) == <<>>

\* if result.scalar_one_or_none(): raise ValueError(...)
DeletePolicyError(pid) ==
    IF Cardinality(ActiveClaims(pid)) > 1 THEN MultipleRows
    ELSE IF ActiveClaims(pid) # {}
        THEN <<"Cannot delete policy with active claims">>
    ELSE <<>>

DeletePolicy(pid, gw) ==
    LET op == "delete_policy"
        args == [policy_id |-> pid]
        prefix == "Failed to delete policy: "
        pre == Some(Store)
        gone == ClaimsOf({pid})
    IN  /\ UNCHANGED <<policyholders, issued, now, calls, storage>>
        /\ IF gw = "lookup_fails"
             THEN /\ last' = Raised(op, args, gw, Wrapped(prefix, SessionError),
                                    pre)
                  /\ UNCHANGED <<policies, claims, documents>>
           ELSE IF DeletePolicyError(pid) # <<>>
             THEN /\ last' = Raised(op, args, gw,
                        Wrapped(prefix, DeletePolicyError(pid)), pre)
                  /\ UNCHANGED <<policies, claims, documents>>
           ELSE IF gw \in {"delete_fails", "commit_fails"} /\ 
                   (gw = "delete_fails" \/ pid \in DOMAIN policies)
             THEN /\ last' = Raised(op, args, gw,
                        Wrapped(prefix,
                            IF gw = "delete_fails"
                                THEN RepoError("Failed to delete entity: ")
                                ELSE SessionError),
                        pre)
                  /\ policies' = Rollback(policies, Without(policies, {pid}))
                  /\ claims' = Rollback(claims, Without(claims, gone))
                  /\ documents' = Rollback(documents,
                        Without(documents, DocumentsOf(gone)))
           ELSE IF pid \notin DOMAIN policies
             THEN /\ last' = [Absent(op, args, gw) EXCEPT !.pre = pre]
                  /\ UNCHANGED <<policies, claims, documents>>
           ELSE /\ policies' = Without(policies, {pid})
                /\ claims' = Without(claims, gone)
                /\ documents' = Without(documents, DocumentsOf(gone))
                /\ last' = Returned(op, args, gw, pid, pre)

\* The policies delete_policyholder looks for, with PENDING in the place of
\* ACTIVE.
ActivePolicies_PendingOnly(hid) ==
    {p \in DOMAIN policies :
        policies[p].policyholder_id = hid /\ policies[p].status = "PENDING"}

\* select(Policy).where(Policy.policyholder_id == policyholder_id,
\*     Policy.status == PolicyStatus.ACTIVE)
ActivePolicies(hid) ==
    {p \in DOMAIN policies :
        policies[p].policyholder_id = hid /\ policies[p].status = "ACTIVE"}

\* if result.scalar_one_or_none(): raise ValueError(...)
DeletePolicyholderError(hid) ==
    IF Cardinality(ActivePolicies(hid)) > 1 THEN MultipleRows
    ELSE IF ActivePolicies(hid) # {}
        THEN <<"Cannot delete policyholder with active policies">>
    ELSE <<>>

DeletePolicyholder(hid, gw) ==
    LET op == "delete_policyholder"
        args == [policyholder_id |-> hid]
        prefix == "Failed to delete policyholder: "
        pre == Some(Store)
        gonePolicies == PoliciesOf({hid})
        goneClaims == ClaimsOf(gonePolicies)
    IN  /\ UNCHANGED <<issued, now, calls, storage>>
        /\ IF gw = "lookup_fails"
             THEN /\ last' = Raised(op, args, gw, Wrapped(prefix, SessionError),
                                    pre)
                  /\ UNCHANGED <<policyholders, policies, claims, documents>>
           ELSE IF DeletePolicyholderError(hid) # <<>>
             THEN /\ last' = Raised(op, args, gw,
                        Wrapped(prefix, DeletePolicyholderError(hid)), pre)
                  /\ UNCHANGED <<policyholders, policies, claims, documents>>
           ELSE IF gw \in {"delete_fails", "commit_fails"} /\ 
                   (gw = "delete_fails" \/ hid \in DOMAIN policyholders)
             THEN /\ last' = Raised(op, args, gw,
                        Wrapped(prefix,
                            IF gw = "delete_fails"
                                THEN RepoError("Failed to delete entity: ")
                                ELSE SessionError),
                        pre)
                  /\ policyholders' = Rollback(policyholders,
                        Without(policyholders, {hid}))
                  /\ policies' = Rollback(policies,
                        Without(policies, gonePolicies))
                  /\ claims' = Rollback(claims, Without(claims, goneClaims))
                  /\ documents' = Rollback(documents,
                        Without(documents, DocumentsOf(goneClaims)))
           ELSE IF hid \notin DOMAIN policyholders
             THEN /\ last' = [Absent(op, args, gw) EXCEPT !.pre = pre]
                  /\ UNCHANGED <<policyholders, policies, claims, documents>>
           ELSE /\ policyholders' = Without(policyholders, {hid})
                /\ policies' = Without(policies, gonePolicies)
                /\ claims' = Without(claims, goneClaims)
                /\ documents' = Without(documents, DocumentsOf(goneClaims))
                /\ last' = Returned(op, args, gw, hid, pre)

\* -------------------------------------------------------- add_claim_document
\* ClaimDocumentCreate has no field claim_id: reading it raises AttributeError
\* inside the try block, before the claim is looked up.
AddClaimDocument ==
    /\ last' = Raised("add_claim_document", None, "ok",
            Wrapped("Failed to add claim document: ",
                <<"'ClaimDocumentCreate' object has no attribute 'claim_id'">>),
            Some(Store))
    /\ UNCHANGED
           <<policyholders, policies, claims, documents, issued, now, calls,
             storage>>

\* ------------------------------------------------------ base_entities.Policy
\* Policy.validate, called by Policy.__init__: the message of the ValueError
\* it raises, the empty tuple when the policy is constructed.
PolicyValidateError(start, end, cov, prem, ded) ==
    IF start >= end THEN <<"End date must be after start date">>
    ELSE IF cov <= 0 \/ prem <= 0
        THEN <<"Coverage amount and premium must be positive">>
    ELSE IF ded < 0 THEN <<"Deductible cannot be negative">>
    ELSE <<>>

\* Policy(**data): nothing is stored.
ConstructPolicy(start, end, cov, prem, ded) ==
    LET op == "Policy"
        args == [start_date |-> start, end_date |-> end,
                 coverage_amount |-> cov, premium |-> prem, deductible |-> ded]
        failed == PolicyValidateError(start, end, cov, prem, ded)
    IN  /\ last' = IF failed # <<>>
                     THEN Raised(op, args, "ok",
                            [type |-> "ValueError", msg |-> failed],
                            Some(policies))
                     ELSE Returned(op, args, "ok", 0, Some(policies))
        /\ UNCHANGED
               <<policyholders, policies, claims, documents, issued, now, calls,
                 storage>>

\* -------------------------------------------------------------- api.py
\* The status codes of the responses.
HTTP_200_OK == 200
HTTP_201_CREATED == 201
HTTP_400_BAD_REQUEST == 400
HTTP_404_NOT_FOUND == 404
HTTP_422_UNPROCESSABLE_ENTITY == 422
HTTP_500_INTERNAL_SERVER_ERROR == 500

GetGw == {"ok", "lookup_fails"}

\* get_policyholder, get_policy and get_claim: the row, None when there is
\* none, ValueError when the select fails.
GetById(op, table, what, id, gw) ==
    /\ last' = IF gw = "lookup_fails"
                 THEN Raised(op, [id |-> id], gw,
                             Wrapped(what, SessionError), None)
               ELSE IF id \notin DOMAIN table
                 THEN Absent(op, [id |-> id], gw)
               ELSE Returned(op, [id |-> id], gw, id, None)
    /\ UNCHANGED
           <<policyholders, policies, claims, documents, issued, now, calls,
             storage>>

GetPolicyholder(id, gw) ==
    GetById("get_policyholder", policyholders,
            "Failed to get policyholder: ", id, gw)

GetPolicy(id, gw) ==
    GetById("get_policy", policies, "Failed to get policy: ", id, gw)

GetClaim(id, gw) ==
    GetById("get_claim", claims, "Failed to get claim: ", id, gw)

\* update_claim_status: process_claim(claim_id, status, adjuster_id) is a
\* call with three arguments of a method that takes two, so the call raises
\* TypeError before process_claim runs.
UpdateClaimStatus(cid, new_status, adjuster_id) ==
    /\ last' = Raised("update_claim_status",
                      [claim_id |-> cid, new_status |-> new_status,
                       adjuster_id |-> adjuster_id], "ok",
                      [type |-> "TypeError",
                       msg |-> <<"process_claim() takes 3 positional ",
                                 "arguments but 4 were given">>], None)
    /\ UNCHANGED
           <<policyholders, policies, claims, documents, issued, now, calls,
             storage>>

CreateOps == {"create_policyholder", "create_policy", "submit_claim"}
GetOps == {"get_policyholder", "get_policy", "get_claim"}

\* The status code that the endpoint around the last use-case answers.  A
\* payload that is refused by its schema never reaches the handler.  The
\* handlers of the create endpoints answer ValueError with 400 and every
\* other exception with 500; those of the get endpoints have one except
\* clause, for Exception, which also catches the HTTPException(404) that is
\* raised inside the try block; update_claim_status has both clauses, and
\* its HTTPException(404) is caught by the second.
Response ==
    IF last.outcome = "rejected" THEN HTTP_422_UNPROCESSABLE_ENTITY
    ELSE IF last.op \in CreateOps
        THEN IF last.outcome = "returned" THEN HTTP_201_CREATED
             ELSE IF last.err.type = "ValueError" THEN HTTP_400_BAD_REQUEST
             ELSE HTTP_500_INTERNAL_SERVER_ERROR
    ELSE IF last.op \in GetOps
        THEN IF last.outcome = "returned" THEN HTTP_200_OK
             ELSE HTTP_500_INTERNAL_SERVER_ERROR
    ELSE IF last.outcome = "returned" THEN HTTP_200_OK
    ELSE IF last.outcome = "absent" THEN HTTP_500_INTERNAL_SERVER_ERROR
    ELSE IF last.err.type = "ValueError" THEN HTTP_400_BAD_REQUEST
    ELSE HTTP_500_INTERNAL_SERVER_ERROR

\* ------------------------------------------------- sessions side by side
(***************************************************************************)
(* get_db_session gives every request an AsyncSession of its own, and the  *)
(* engine is created with the isolation level of the database (READ        *)
(* COMMITTED): a session reads what is committed when it reads, its        *)
(* writes are seen by the others from its commit on, and an UPDATE that    *)
(* finds the row locked waits for the other commit and then applies to     *)
(* the row as committed.  A use-case is therefore two steps here: its      *)
(* read, and the rest (checks on what was read, flush and commit).         *)
(***************************************************************************)
Call(op, args, snap) ==
    [pc |-> "read", op |-> op, args |-> args, snap |-> snap,
     found |-> None, outcome |-> "none", err |-> NoError]

Finished(call, outcome, err, found) ==
    [call EXCEPT !.pc = "done", !.outcome = outcome, !.err = err,
                 !.found = found]

\* models.Claim with a version_id_col: the UPDATE is refused when the row is
\* not the one that was read.
VersionConflict_Checked(read, stored) == read # stored

\* models.Claim has no version_id_col and get_claim no with_for_update():
\* nothing compares the row as read with the row as stored.
VersionConflict(read, stored) == FALSE

\* The UPDATE of a flush: the columns whose value in the session differs
\* from the value that was loaded, and updated_at (onupdate), set on the row
\* as stored.
Flushed(stored, read, changed) ==
    [f \in DOMAIN stored |->
        IF f = "updated_at" THEN changed.updated_at
        ELSE IF changed[f] # read[f] THEN changed[f]
        ELSE stored[f]]

\* process_claim up to the return of get_claim.
ProcessClaimRead(p, cid, new_status, adjuster_id) ==
    LET args == [claim_id |-> cid, new_status |-> new_status,
                 adjuster_id |-> adjuster_id]
    IN  /\ calls[p].pc = "none"
        /\ calls' = [calls EXCEPT ![p] =
                IF cid \in DOMAIN claims
                    THEN Call("process_claim", args, Some(claims[cid]))
                    ELSE Finished(Call("process_claim", args, None),
                                  "absent", NoError, None)]
        /\ UNCHANGED
               <<policyholders, policies, claims, documents, issued, now, last,
                 storage>>

\* process_claim from the checks to the commit.
ProcessClaimWrite(p) ==
    LET call == calls[p]
        cid == call.args.claim_id
        read == call.snap[1]
        prefix == "Failed to process claim: "
        failed == ProcessClaimError(read, call.args.new_status,
                                    call.args.adjuster_id)
        changed == ProcessedClaim(read, call.args.new_status,
                                  call.args.adjuster_id)
    IN  /\ call.pc = "read"
        /\ call.op = "process_claim"
        /\ UNCHANGED <<policyholders, policies, documents, issued, now, last,
                       storage>>
        /\ IF failed # <<>>
             THEN /\ calls' = [calls EXCEPT ![p] =
                        Finished(call, "raised", Wrapped(prefix, failed), None)]
                  /\ UNCHANGED claims
           ELSE IF cid \notin DOMAIN claims
             THEN /\ calls' = [calls EXCEPT ![p] =
                        Finished(call, "raised",
                            Wrapped(prefix, RepoError("Failed to update entity: ")),
                            None)]
                  /\ UNCHANGED claims
           ELSE IF VersionConflict(read, claims[cid])
             THEN /\ calls' = [calls EXCEPT ![p] =
                        Finished(call, "raised",
                            Wrapped(prefix, RepoError("Failed to update entity: ")),
                            Some(claims[cid]))]
                  /\ UNCHANGED claims
           ELSE /\ claims' = Put(claims, cid, Flushed(claims[cid], read, changed))
                /\ calls' = [calls EXCEPT ![p] =
                        Finished(call, "returned", NoError, Some(claims[cid]))]

\* The first check of submit_claim that fails when seen is what the session
\* read of the table policies.
SubmitClaimErrorIn(seen, pid, t, amt, desc, idesc) ==
    IF pid \notin DOMAIN seen THEN PolicyNotFound(pid)
    ELSE IF seen[pid].status # "ACTIVE" THEN PolicyNotActive(seen[pid])
    ELSE IF t > now THEN <<"Incident date cannot be in the future">>
    ELSE IF amt < 0 THEN <<"amount_requested cannot be negative">>
    ELSE IF ~InPolicyPeriod(seen[pid], t)
        THEN OutsidePolicyPeriod(seen[pid], t)
    ELSE IF amt <= 0 THEN <<"Claim amount must be positive">>
    ELSE IF amt > seen[pid].coverage_amount
        THEN ExceedsCoverage(seen[pid], amt)
    ELSE IF Blank(desc) THEN <<"Description is required">>
    ELSE IF Blank(idesc) THEN <<"Incident description is required">>
    ELSE <<>>

\* submit_claim up to the return of the select on policies.
SubmitClaimRead(p, pid, inc, amt, desc, idesc) ==
    LET args == [policy_id |-> pid, incident_date |-> ToUtc(inc),
                 amount_requested |-> amt, description |-> desc,
                 incident_description |-> idesc]
    IN  /\ calls[p].pc = "none"
        /\ ClaimCreateErrors(inc, desc, idesc, amt) = <<>>
        /\ calls' = [calls EXCEPT ![p] =
                Call("submit_claim", args,
                     IF pid \in DOMAIN policies THEN Some(policies[pid])
                                                ELSE None)]
        /\ UNCHANGED
               <<policyholders, policies, claims, documents, issued, now, last,
                 storage>>

\* submit_claim from the checks to the commit: the INSERT is refused by the
\* foreign key when the policy is gone.
SubmitClaimWrite(p) ==
    LET call == calls[p]
        a == call.args
        pid == a.policy_id
        id == FreshId("claim")
        prefix == "Database error while creating claim: "
        seen == IF call.snap = None THEN <<>>
                ELSE [i \in {pid} |-> call.snap[1]]
        failed == SubmitClaimErrorIn(seen, pid, a.incident_date,
                        a.amount_requested, a.description,
                        a.incident_description)
    IN  /\ call.pc = "read"
        /\ call.op = "submit_claim"
        /\ UNCHANGED <<policyholders, policies, documents, now, last, storage>>
        /\ IF failed # <<>>
             THEN /\ calls' = [calls EXCEPT ![p] =
                        Finished(call, "raised", Wrapped(prefix, failed), None)]
                  /\ UNCHANGED <<claims, issued>>
           ELSE IF pid \notin DOMAIN policies
             THEN /\ calls' = [calls EXCEPT ![p] =
                        Finished(call, "raised",
                            Wrapped(prefix, RepoError("Failed to create entity: ")),
                            None)]
                  /\ UNCHANGED <<claims, issued>>
           ELSE /\ claims' = Put(claims, id,
                        NewClaim(id, pid, a.incident_date, a.description,
                                 a.incident_description, a.amount_requested))
                /\ issued' = [issued EXCEPT !.claim = id]
                /\ calls' = [calls EXCEPT ![p] =
                        Finished(call, "returned", NoError,
                                 Some(policies[pid]))]

\* ------------------------------------------------------------- the gateways
(***************************************************************************)
(* The two implementations of the persistence gateway, called directly:   *)
(* InMemoryRepository over its dictionary _storage, and                    *)
(* PostgresRepository[Policyholder] over the table policyholders as the    *)
(* session of the caller sees it.  The caller chooses the identity of the  *)
(* entity it hands over.                                                   *)
(***************************************************************************)
GatewayBirthDates == {-1, 0}

\* A policyholder object built by the caller under the identity id.
Entity(id, dob) ==
    [id |-> id, date_of_birth |-> dob, created_at |-> 0, updated_at |-> 0]

\* An object that has no attribute id.
NoIdEntity == [date_of_birth |-> -1]

GatewayEntities ==
    {Entity(id, dob) : id \in OwnedIds, dob \in GatewayBirthDates}

\* dict.get(id) and scalar_one_or_none(): the entity under id, or None.
Get(table, id) == IF id \in DOMAIN table THEN Some(table[id]) ELSE None

\* InMemoryRepository.create writing over the entity already stored.
InMemoryCreateError_NoDuplicateCheck(entity) == NoError

\* if entity.id in self._storage: raise ValueError(...)
InMemoryCreateError(entity) ==
    IF "id" \in DOMAIN entity /\ entity.id \in DOMAIN storage
      THEN [type |-> "ValueError",
            msg |-> <<"Entity with ID ">> \o UuidStr(entity.id)
                        \o <<" already exists">>]
    ELSE NoError

InMemoryCreate(entity) ==
    LET op == "InMemoryRepository.create"
        args == [entity |-> entity]
        pre == Some(storage)
    IN  /\ UNCHANGED
               <<policyholders, policies, claims, documents, issued, now, calls>>
        /\ IF InMemoryCreateError(entity) # NoError
             THEN /\ last' = Raised(op, args, "ok",
                                    InMemoryCreateError(entity), pre)
                  /\ UNCHANGED storage
           ELSE IF "id" \in DOMAIN entity
             THEN /\ storage' = Put(storage, entity.id, entity)
                  /\ last' = Returned(op, args, "ok", entity.id, pre)
           ELSE /\ UNCHANGED storage
                /\ last' = Returned(op, args, "ok", 0, pre)

InMemoryRead(id) ==
    LET op == "InMemoryRepository.read"
        args == [id |-> id]
        pre == Some(storage)
    IN  /\ last' = IF Get(storage, id) = None
                     THEN [Absent(op, args, "ok") EXCEPT !.pre = pre]
                   ELSE Returned(op, args, "ok", id, pre)
        /\ UNCHANGED
               <<policyholders, policies, claims, documents, issued, now, calls,
                 storage>>

\* if not hasattr(entity, 'id') or entity.id not in self._storage: raise
InMemoryUpdateError(entity) ==
    IF "id" \notin DOMAIN entity \/ entity.id \notin DOMAIN storage
      THEN [type |-> "ValueError", msg |-> <<"Entity not found">>]
    ELSE NoError

\* if hasattr(entity, 'updated_at'): entity.updated_at = datetime.now()
Stamped(entity) ==
    IF "updated_at" \in DOMAIN entity
      THEN [entity EXCEPT !.updated_at = now]
    ELSE entity

InMemoryUpdate(entity) ==
    LET op == "InMemoryRepository.update"
        args == [entity |-> entity]
        pre == Some(storage)
    IN  /\ UNCHANGED
               <<policyholders, policies, claims, documents, issued, now, calls>>
        /\ IF InMemoryUpdateError(entity) # NoError
             THEN /\ last' = Raised(op, args, "ok",
                                    InMemoryUpdateError(entity), pre)
                  /\ UNCHANGED storage
           ELSE /\ storage' = Put(storage, entity.id, Stamped(entity))
                /\ last' = Returned(op, args, "ok", entity.id, pre)

InMemoryDelete(id) ==
    LET op == "InMemoryRepository.delete"
        args == [id |-> id]
        pre == Some(storage)
    IN  /\ UNCHANGED
               <<policyholders, policies, claims, documents, issued, now, calls>>
        /\ IF id \in DOMAIN storage
             THEN /\ storage' = Without(storage, {id})
                  /\ last' = Returned(op, args, "ok", id, pre)
           ELSE /\ UNCHANGED storage
                /\ last' = [Absent(op, args, "ok") EXCEPT !.pre = pre]

PostgresCreateGw == {"ok", "create_fails"}

\* setattr(entity, 'created_at', datetime.now(timezone.utc))
Created(entity) == [entity EXCEPT !.created_at = now]

\* PostgresRepository.create: the INSERT of flush() breaks the primary key
\* when the identity is stored already (IntegrityError, an SQLAlchemyError).
PostgresCreate(entity, gw) ==
    LET op == "PostgresRepository.create"
        args == [entity |-> entity]
        pre == Some(policyholders)
        prefix == "Failed to create entity: "
    IN  /\ UNCHANGED <<policies, claims, documents, issued, now, calls, storage>>
        /\ IF entity.id \in DOMAIN policyholders
             THEN /\ last' = Raised(op, args, gw,
                        [type |-> "ValueError",
                         msg |-> <<prefix, "IntegrityError">>], pre)
                  /\ policyholders' = Rollback(policyholders,
                        Put(policyholders, entity.id, Created(entity)))
           ELSE IF gw = "create_fails"
             THEN /\ last' = Raised(op, args, gw,
                        [type |-> "ValueError", msg |-> RepoError(prefix)],
                        pre)
                  /\ policyholders' = Rollback(policyholders,
                        Put(policyholders, entity.id, Created(entity)))
           ELSE /\ policyholders' =
                        Put(policyholders, entity.id, Created(entity))
                /\ last' = Returned(op, args, gw, entity.id, pre)

PostgresRead(id, gw) ==
    LET op == "PostgresRepository.read"
        args == [id |-> id]
        pre == Some(policyholders)
    IN  /\ last' = IF gw = "lookup_fails"
                     THEN Raised(op, args, gw,
                            [type |-> "ValueError",
                             msg |-> RepoError("Failed to read entity: ")],
                            pre)
                   ELSE IF Get(policyholders, id) = None
                     THEN [Absent(op, args, gw) EXCEPT !.pre = pre]
                   ELSE Returned(op, args, gw, id, pre)
        /\ UNCHANGED
               <<policyholders, policies, claims, documents, issued, now, calls,
                 storage>>

PostgresUpdateGw == {"ok", "update_fails"}

\* session.merge(entity) followed by flush(): the state of the entity is
\* copied onto the row of its identity, and where the table has no such row
\* the entity becomes a pending row that flush() INSERTs.
Merge(table, entity) == Put(table, entity.id, entity)

\* PostgresRepository.update
PostgresUpdate(entity, gw) ==
    LET op == "PostgresRepository.update"
        args == [entity |-> entity]
        pre == Some(policyholders)
        prefix == "Failed to update entity: "
    IN  /\ UNCHANGED <<policies, claims, documents, issued, now, calls, storage>>
        /\ IF gw = "update_fails"
             THEN /\ last' = Raised(op, args, gw,
                        [type |-> "ValueError", msg |-> RepoError(prefix)],
                        pre)
                  /\ policyholders' = Rollback(policyholders,
                        Merge(policyholders, Stamped(entity)))
           ELSE /\ policyholders' = Merge(policyholders, Stamped(entity))
                /\ last' = Returned(op, args, gw, entity.id, pre)

\* ---------------------------------------------------------- specifications
(***************************************************************************)
(* Use-cases run one after the other: the next one starts, or time        *)
(* passes, once the caller has taken the outcome of the last one.          *)
(*                                                                         *)
(* A use-case that raises leaves the tables as they were, so a             *)
(* specification that studies one use-case gives that one every input and  *)
(* runs the others on the inputs that build the stores it needs.           *)
(***************************************************************************)
ValidBirthDates == {-1}
ValidCoverages == 1..MaxAmount

\* PolicyUpdate payloads that change the status, the period or the coverage.
SubmissionUpdates ==
    {u \in PolicyUpdates : u.premium = None /\ u.deductible = None}

\* Claim submission against every kind of policy.
NextSubmission ==
    \/ Return
    \/ last = Idle /\ Tick
    \/ last = Idle /\ issued.policyholder < MaxPolicyholders
                   /\ \E dob \in ValidBirthDates : CreatePolicyholder(dob, "ok")
    \/ last = Idle /\ issued.policy < MaxPolicies
                   /\ \E hid \in PolicyholderIds, start \in Dates, end \in Dates,
                         cov \in ValidCoverages :
                            CreatePolicy(hid, start, end, cov, 1, 0, "ok")
    \/ last = Idle /\ \E pid \in PolicyIds, u \in SubmissionUpdates :
                            UpdatePolicy(pid, u, "ok")
    \/ last = Idle /\ issued.claim < MaxClaims
                   /\ \E pid \in PolicyIds, inc \in IncidentInputs,
                         amt \in Amounts, desc \in Texts, idesc \in Texts,
                         gw \in SubmitClaimGw :
                            SubmitClaim(pid, inc, amt, desc, idesc, gw)

SpecSubmission == Init /\ [][NextSubmission]_vars

\* The claim lifecycle: every process_claim call on every claim.
NextLifecycle ==
    \/ Return
    \/ last = Idle /\ Tick
    \/ last = Idle /\ issued.policyholder < MaxPolicyholders
                   /\ \E dob \in ValidBirthDates : CreatePolicyholder(dob, "ok")
    \/ last = Idle /\ issued.policy < MaxPolicies
                   /\ \E hid \in PolicyholderIds :
                            CreatePolicy(hid, -1, 1, 1, 1, 0, "ok")
    \/ last = Idle /\ issued.claim < MaxClaims
                   /\ \E pid \in PolicyIds, inc \in IncidentInputs,
                         gw \in {"ok", "documents_fail"} :
                            SubmitClaim(pid, inc, 1, <<"a">>, <<"a">>, gw)
    \/ last = Idle /\ \E cid \in ClaimIds, new_status \in ClaimStatus,
                         adjuster_id \in OptAdjusters, gw \in ProcessClaimGw :
                            ProcessClaim(cid, new_status, adjuster_id, gw)

SpecLifecycle == Init /\ [][NextLifecycle]_vars

\* PolicyUpdate payloads that change the status only.
StatusUpdates ==
    {u \in PolicyUpdates :
        /\ u.start_date = None /\ u.end_date = None
        /\ u.coverage_amount = None /\ u.premium = None
        /\ u.deductible = None /\ u.status # None}

\* The incident of a claim filed at the start of the clock.
IncidentAtStart == [wall |-> 0, offset |-> None]

\* Up to MaxOwned policies and MaxOwned claims, in every status, and the
\* three deletes on them.
NextStore ==
    \/ Return
    \/ last = Idle /\ issued.policyholder < MaxPolicyholders
                   /\ \E dob \in ValidBirthDates : CreatePolicyholder(dob, "ok")
    \/ last = Idle /\ issued.policy < MaxOwned
                   /\ \E hid \in PolicyholderIds :
                            CreatePolicy(hid, -1, 1, 1, 1, 0, "ok")
    \/ last = Idle /\ \E pid \in OwnedIds, u \in StatusUpdates :
                            UpdatePolicy(pid, u, "ok")
    \/ last = Idle /\ issued.claim < MaxOwned
                   /\ \E pid \in OwnedIds, gw \in {"ok", "documents_fail"} :
                            SubmitClaim(pid, IncidentAtStart, 1, <<"a">>,
                                        <<"a">>, gw)
    \/ last = Idle /\ \E cid \in OwnedIds, new_status \in ClaimStatus :
                            ProcessClaim(cid, new_status, Some("adj1"), "ok")
    \/ last = Idle /\ \E cid \in OwnedIds, gw \in DeleteGw : DeleteClaim(cid, gw)
    \/ last = Idle /\ \E pid \in OwnedIds, gw \in DeleteGw : DeletePolicy(pid, gw)
    \/ last = Idle /\ \E hid \in PolicyholderIds, gw \in DeleteGw :
                            DeletePolicyholder(hid, gw)
    \/ last = Idle /\ AddClaimDocument

SpecStore == Init /\ [][NextStore]_vars

\* Policies: every PolicyCreate and PolicyUpdate payload, every gateway
\* outcome, and the construction of the entity of base_entities.
NextPolicy ==
    \/ Return
    \/ last = Idle /\ issued.policyholder < MaxPolicyholders
                   /\ \E dob \in ValidBirthDates : CreatePolicyholder(dob, "ok")
    \/ last = Idle /\ issued.policy < MaxPolicies
                   /\ \E hid \in PolicyholderIds, start \in Dates, end \in Dates,
                         cov \in CoverageInputs, prem \in PremiumInputs,
                         ded \in DeductibleInputs, gw \in CreatePolicyGw :
                            CreatePolicy(hid, start, end, cov, prem, ded, gw)
    \/ last = Idle /\ \E pid \in PolicyIds, u \in PolicyUpdates,
                         gw \in UpdatePolicyGw : UpdatePolicy(pid, u, gw)
    \/ last = Idle /\ \E start \in Dates, end \in Dates, cov \in CoverageInputs,
                         prem \in PremiumInputs, ded \in DeductibleInputs :
                            ConstructPolicy(start, end, cov, prem, ded)

SpecPolicy == Init /\ [][NextPolicy]_vars

\* The updates of the three entities while the clock runs.
NextUpdates ==
    \/ Return
    \/ last = Idle /\ Tick
    \/ last = Idle /\ issued.policyholder < MaxPolicyholders
                   /\ \E dob \in ValidBirthDates : CreatePolicyholder(dob, "ok")
    \/ last = Idle /\ \E hid \in PolicyholderIds, dob \in Dates,
                         gw \in UpdatePolicyholderGw :
                            UpdatePolicyholder(hid, dob, gw)
    \/ last = Idle /\ issued.policy < MaxPolicies
                   /\ \E hid \in PolicyholderIds :
                            CreatePolicy(hid, -1, 1, 1, 1, 0, "ok")
    \/ last = Idle /\ \E pid \in PolicyIds, u \in StatusUpdates,
                         gw \in UpdatePolicyGw : UpdatePolicy(pid, u, gw)
    \/ last = Idle /\ issued.claim < MaxClaims
                   /\ \E pid \in PolicyIds :
                            SubmitClaim(pid, IncidentAtStart, 1, <<"a">>,
                                        <<"a">>, "ok")
    \/ last = Idle /\ \E cid \in ClaimIds, new_status \in ClaimStatus,
                         gw \in ProcessClaimGw :
                            ProcessClaim(cid, new_status, Some("adj1"), gw)

SpecUpdates == Init /\ [][NextUpdates]_vars

\* No request has started.
NoneInFlight == \A p \in Procs : calls[p].pc = "none"

\* The targets of the requests that run side by side.
RaceTargets == {"APPROVED", "REJECTED", "SETTLED"}

\* A claim is brought to some status; then two process_claim requests run on
\* it, each in a session of its own.
NextSettleRace ==
    \/ Return
    \/ last = Idle /\ issued.policyholder < MaxPolicyholders
                   /\ \E dob \in ValidBirthDates : CreatePolicyholder(dob, "ok")
    \/ last = Idle /\ issued.policy < MaxPolicies
                   /\ \E hid \in PolicyholderIds :
                            CreatePolicy(hid, -1, 1, 1, 1, 0, "ok")
    \/ last = Idle /\ issued.claim < MaxClaims
                   /\ \E pid \in PolicyIds :
                            SubmitClaim(pid, IncidentAtStart, 1, <<"a">>,
                                        <<"a">>, "ok")
    \/ last = Idle /\ NoneInFlight
                   /\ \E cid \in ClaimIds, new_status \in ClaimStatus :
                            ProcessClaim(cid, new_status, Some("adj1"), "ok")
    \/ last = Idle /\ \E p \in Procs, cid \in ClaimIds,
                         new_status \in RaceTargets :
                            ProcessClaimRead(p, cid, new_status, Some("adj1"))
    \/ last = Idle /\ \E p \in Procs : ProcessClaimWrite(p)

SpecSettleRace == Init /\ [][NextSettleRace]_vars

\* Two submit_claim requests run, each in a session of its own, while the
\* policy they name is updated or deleted.
NextSubmitRace ==
    \/ Return
    \/ last = Idle /\ issued.policyholder < MaxPolicyholders
                   /\ \E dob \in ValidBirthDates : CreatePolicyholder(dob, "ok")
    \/ last = Idle /\ issued.policy < MaxPolicies
                   /\ \E hid \in PolicyholderIds :
                            CreatePolicy(hid, -1, 1, 1, 1, 0, "ok")
    \/ last = Idle /\ \E pid \in PolicyIds, u \in StatusUpdates :
                            UpdatePolicy(pid, u, "ok")
    \/ last = Idle /\ \E pid \in PolicyIds : DeletePolicy(pid, "ok")
    \/ last = Idle /\ \E hid \in PolicyholderIds : DeletePolicyholder(hid, "ok")
    \/ last = Idle /\ \E p \in Procs, pid \in PolicyIds :
                            SubmitClaimRead(p, pid, IncidentAtStart, 1,
                                            <<"a">>, <<"a">>)
    \/ last = Idle /\ issued.claim < MaxOwned
                   /\ \E p \in Procs : SubmitClaimWrite(p)

SpecSubmitRace == Init /\ [][NextSubmitRace]_vars

\* The endpoints: the three creates with every outcome of the session, the
\* three reads by identity and the update of a claim status.
NextApi ==
    \/ Return
    \/ last = Idle /\ issued.policyholder < MaxPolicyholders
                   /\ \E dob \in Dates, gw \in CreatePolicyholderGw :
                            CreatePolicyholder(dob, gw)
    \/ last = Idle /\ issued.policy < MaxPolicies
                   /\ \E hid \in PolicyholderIds, end \in Dates,
                         cov \in Amounts, gw \in CreatePolicyGw :
                            CreatePolicy(hid, -1, end, cov, 1, 0, gw)
    \/ last = Idle /\ issued.claim < MaxClaims
                   /\ \E pid \in PolicyIds, amt \in Amounts,
                         gw \in SubmitClaimGw :
                            SubmitClaim(pid, IncidentAtStart, amt, <<"a">>,
                                        <<"a">>, gw)
    \/ last = Idle /\ \E cid \in ClaimIds, new_status \in ClaimStatus :
                            ProcessClaim(cid, new_status, Some("adj1"), "ok")
    \/ last = Idle /\ \E id \in OwnedIds, gw \in GetGw : GetPolicyholder(id, gw)
    \/ last = Idle /\ \E id \in OwnedIds, gw \in GetGw : GetPolicy(id, gw)
    \/ last = Idle /\ \E id \in OwnedIds, gw \in GetGw : GetClaim(id, gw)
    \/ last = Idle /\ \E cid \in OwnedIds, new_status \in ClaimStatus,
                         adjuster_id \in OptAdjusters :
                            UpdateClaimStatus(cid, new_status, adjuster_id)

SpecApi == Init /\ [][NextApi]_vars

\* The gateways called directly, every operation on every entity, with time
\* passing between the calls.
NextGateway ==
    \/ Return
    \/ last = Idle /\ Tick
    \/ last = Idle /\ \E entity \in GatewayEntities \cup {NoIdEntity} :
                            InMemoryCreate(entity)
    \/ last = Idle /\ \E id \in OwnedIds : InMemoryRead(id)
    \/ last = Idle /\ \E entity \in GatewayEntities \cup {NoIdEntity} :
                            InMemoryUpdate(entity)
    \/ last = Idle /\ \E id \in OwnedIds : InMemoryDelete(id)
    \/ last = Idle /\ \E entity \in GatewayEntities, gw \in PostgresCreateGw :
                            PostgresCreate(entity, gw)
    \/ last = Idle /\ \E id \in OwnedIds, gw \in GetGw : PostgresRead(id, gw)
    \/ last = Idle /\ \E entity \in GatewayEntities, gw \in PostgresUpdateGw :
                            PostgresUpdate(entity, gw)

SpecGateway == Init /\ [][NextGateway]_vars

\* Policies created from payloads carrying every status, and submissions
\* against them; no policy is updated or deleted.
NextActivation ==
    \/ Return
    \/ last = Idle /\ Tick
    \/ last = Idle /\ issued.policyholder < MaxPolicyholders
                   /\ \E dob \in ValidBirthDates : CreatePolicyholder(dob, "ok")
    \/ last = Idle /\ issued.policy < MaxOwned
                   /\ \E hid \in PolicyholderIds, end \in Dates,
                         cov \in ValidCoverages, status \in PolicyStatus,
                         gw \in CreatePolicyGw :
                            CreatePolicyPayload(hid, 0, end, cov, 1, 0, status,
                                                gw)
    \/ last = Idle /\ issued.claim < MaxClaims
                   /\ \E pid \in OwnedIds, inc \in IncidentInputs,
                         amt \in Amounts :
                            SubmitClaim(pid, inc, amt, <<"a">>, <<"a">>, "ok")

SpecActivation == Init /\ [][NextActivation]_vars

\* The ClaimProcess payloads: notes and settlement_amount unset or set.
NotesInputs == {None, Some(<<"a">>)}
SettlementInputs == {None} \cup {Some(v) : v \in -1..MaxAmount}

\* One claim processed with every ClaimProcess payload and every outcome of
\* the session, and deleted; the requests name its identity or one that is
\* not in the store.
NextSettlement ==
    \/ Return
    \/ last = Idle /\ Tick
    \/ last = Idle /\ issued.policyholder < MaxPolicyholders
                   /\ \E dob \in ValidBirthDates : CreatePolicyholder(dob, "ok")
    \/ last = Idle /\ issued.policy < MaxPolicies
                   /\ \E hid \in PolicyholderIds :
                            CreatePolicy(hid, -1, 1, MaxAmount, 1, 0, "ok")
    \/ last = Idle /\ issued.claim < MaxClaims
                   /\ \E pid \in PolicyIds, amt \in ValidCoverages :
                            SubmitClaim(pid, IncidentAtStart, amt, <<"a">>,
                                        <<"a">>, "ok")
    \/ last = Idle /\ \E cid \in OwnedIds, new_status \in ClaimStatus,
                         adjuster_id \in OptAdjusters, notes \in NotesInputs,
                         settlement_amount \in SettlementInputs,
                         gw \in ProcessClaimGw :
                            ProcessClaimPayload(cid, new_status, adjuster_id,
                                                notes, settlement_amount, gw)
    \/ last = Idle /\ \E cid \in OwnedIds, gw \in DeleteGw : DeleteClaim(cid, gw)

SpecSettlement == Init /\ [][NextSettlement]_vars


\* ============================================================ claim lifecycle
\* A process_claim call that found its claim, and the gateway did not fail.
Processed ==
    /\ last.op = "process_claim"
    /\ last.pre # None
    /\ last.gw = "ok"

ProcessFailure(reason) == Wrapped("Failed to process claim: ", <<reason>>)

C5_FailureLeavesClaim ==
    (last.op = "process_claim" /\ last.outcome = "raised" /\ last.pre # None) =>
        /\ last.args.claim_id \in DOMAIN claims
        /\ claims[last.args.claim_id] = last.pre[1]

\* The gateway fails on a call that would have changed every one of the
\* four fields.
C5_Witness ==
    /\ last.op = "process_claim"
    /\ last.outcome = "raised"
    /\ last.gw = "commit_fails"
    /\ last.pre # None
    /\ last.args.new_status = "SETTLED"
    /\ last.pre[1].status = "APPROVED"
    /\ last.pre[1].updated_at < now

\* ============================================================ claim submission
\* A submission was handled; its target policy is in the store.
SubmittedAgainstPolicy ==
    /\ last.op = "submit_claim"
    /\ last.args.policy_id \in DOMAIN policies

SubmitFailure(reason) == Wrapped("Database error while creating claim: ", reason)

\* The incident falls on a day of the policy period, both end days included.
IncidentInPeriod ==
    LET policy == policies[last.args.policy_id]
    IN  /\ policy.start_date <= Today(last.args.incident_date)
        /\ Today(last.args.incident_date) <= policy.end_date

\* C6 as stated: a submission against a policy that is not ACTIVE fails with
\* InvalidStateError and adds no claim, whatever its other fields are.
C6_InactiveInvalidStateError ==
    (SubmittedAgainstPolicy
        /\ policies[last.args.policy_id].status # "ACTIVE") =>
            /\ last.outcome = "raised"
            /\ last.err.type = "InvalidStateError"
            /\ claims = last.pre[1]

\* C6 amended: for every policy status other than ACTIVE and every valid
\* ClaimCreate payload, submit_claim raises ValueError "Database error while
\* creating claim: Policy <number> is not active. Current status: <status>"
\* unless the policy lookup itself fails; no submission against such a
\* policy, valid payload or not, adds a claim to the store.
C6_InactivePolicyRefused ==
    (SubmittedAgainstPolicy
        /\ policies[last.args.policy_id].status # "ACTIVE") =>
            LET policy == policies[last.args.policy_id]
            IN  /\ last.outcome \in {"raised", "rejected"}
                /\ claims = last.pre[1]
                /\ (last.outcome = "raised" /\ last.gw # "lookup_fails") =>
                        last.err = SubmitFailure(
                            <<"Policy ">> \o PolicyNumber(policy.id)
                            \o <<" is not active. Current status: ",
                                 policy.status>>)

C6_Witness ==
    /\ SubmittedAgainstPolicy
    /\ policies[last.args.policy_id].status = "CANCELLED"
    /\ last.outcome = "raised"
    /\ last.gw = "ok"
    /\ IncidentInPeriod
    /\ last.args.amount_requested
            <= policies[last.args.policy_id].coverage_amount
    /\ ~Blank(last.args.description)
    /\ ~Blank(last.args.incident_description)

\* C7 as stated: a submission naming a policy that is not in the store fails
\* with NotFoundError and adds no claim.
C7_MissingNotFoundError ==
    (last.op = "submit_claim" /\ last.outcome # "rejected"
        /\ last.args.policy_id \notin DOMAIN policies) =>
            /\ last.outcome = "raised"
            /\ last.err.type = "NotFoundError"
            /\ claims = last.pre[1]

\* C7 amended: submit_claim with a policy identity that is not in the store
\* raises ValueError "Database error while creating claim: Policy with ID
\* <id> not found" (unless the lookup itself fails) and adds no claim.
C7_MissingPolicyRefused ==
    (last.op = "submit_claim" /\ last.outcome # "rejected"
        /\ last.args.policy_id \notin DOMAIN policies) =>
            /\ last.outcome = "raised"
            /\ claims = last.pre[1]
            /\ last.gw # "lookup_fails" =>
                    last.err = SubmitFailure(<<"Policy with ID ">>
                        \o UuidStr(last.args.policy_id) \o <<" not found">>)

C7_Witness ==
    /\ last.op = "submit_claim"
    /\ last.args.policy_id \notin DOMAIN policies
    /\ last.outcome = "raised"
    /\ last.gw = "ok"
    /\ last.args.amount_requested > 0
    /\ ~Blank(last.args.description)

\* A submission against an ACTIVE policy whose fields other than the incident
\* timestamp are valid, handled without a gateway failure.
OtherwiseValid ==
    /\ SubmittedAgainstPolicy
    /\ last.gw = "ok"
    /\ policies[last.args.policy_id].status = "ACTIVE"
    /\ last.args.amount_requested > 0
    /\ last.args.amount_requested
            <= policies[last.args.policy_id].coverage_amount
    /\ ~Blank(last.args.description)
    /\ ~Blank(last.args.incident_description)

\* C8 as stated: such a submission is accepted exactly when the incident
\* timestamp lies between start-of-day of start_date and end-of-day of
\* end_date, and outside that range it fails with OutOfRangeError and
\* persists nothing.
C8_PeriodOutOfRangeError ==
    OtherwiseValid =>
        /\ last.outcome = "returned" <=> IncidentInPeriod
        /\ ~IncidentInPeriod =>
                /\ last.outcome = "raised"
                /\ last.err.type = "OutOfRangeError"
                /\ claims = last.pre[1]

\* C8 amended: such a submission is accepted exactly when the incident
\* timestamp (in UTC) is not later than the current time and lies between
\* start-of-day of start_date and end-of-day of end_date; a timestamp at
\* end-of-day of end_date that is not in the future succeeds; a later
\* timestamp is refused as a future date by ClaimCreate, and any other
\* timestamp outside the period raises ValueError "Database error while
\* creating claim: Claim incident date (...) must be within policy period
\* (... to ...)"; a refused submission persists nothing.
C8_PeriodInclusive ==
    OtherwiseValid =>
        LET policy == policies[last.args.policy_id]
            t == last.args.incident_date
        IN  /\ last.outcome = "returned" <=> (t <= now /\ IncidentInPeriod)
            /\ last.outcome = "returned" =>
                    \E id \in DOMAIN claims :
                        /\ id \notin DOMAIN last.pre[1]
                        /\ claims[id].incident_date = t
            /\ t > now => last.outcome = "rejected"
            /\ (t <= now /\ ~IncidentInPeriod) =>
                    /\ last.outcome = "raised"
                    /\ last.err = SubmitFailure(
                         <<"Claim incident date (", Today(t),
                           ") must be within policy period (",
                           policy.start_date, " to ", policy.end_date, ")">>)
            /\ last.outcome # "returned" => claims = last.pre[1]

\* The incident is the last instant of the last day of the period.
C8_Witness ==
    /\ OtherwiseValid
    /\ last.outcome = "returned"
    /\ last.args.incident_date
        = (policies[last.args.policy_id].end_date + 1) * TicksPerDay - 1
    /\ policies[last.args.policy_id].start_date
        < policies[last.args.policy_id].end_date

\* C9: for a ClaimCreate payload against an ACTIVE policy with an incident in
\* the policy period and non-blank descriptions, amount_requested above
\* coverage_amount makes submit_claim fail with nothing persisted, and
\* amount_requested equal to coverage_amount makes it succeed when the
\* gateway does not fail.
C9_CoverageInclusive ==
    (SubmittedAgainstPolicy
        /\ policies[last.args.policy_id].status = "ACTIVE"
        /\ IncidentInPeriod
        /\ ~Blank(last.args.description)
        /\ ~Blank(last.args.incident_description)) =>
            LET coverage == policies[last.args.policy_id].coverage_amount
                amt == last.args.amount_requested
            IN  /\ amt > coverage =>
                        /\ last.outcome \in {"raised", "rejected"}
                        /\ claims = last.pre[1]
                /\ (amt = coverage /\ last.outcome # "rejected"
                        /\ last.gw = "ok") =>
                        /\ last.outcome = "returned"
                        /\ last.id \in DOMAIN claims
                        /\ last.id \notin DOMAIN last.pre[1]
                        /\ claims[last.id].amount_requested = coverage

C9_Witness ==
    /\ SubmittedAgainstPolicy
    /\ last.outcome = "returned"
    /\ last.args.amount_requested
            = policies[last.args.policy_id].coverage_amount
    /\ last.args.amount_requested = MaxAmount
    /\ claims[last.id].amount_requested = MaxAmount

\* The six preconditions of a submission, in the order of the contract.
Violated(k) ==
    LET pid == last.args.policy_id
        stored == pid \in DOMAIN policies
    IN  CASE k = 1 -> ~stored
          [] k = 2 -> stored /\ policies[pid].status # "ACTIVE"
          [] k = 3 -> stored /\ ~IncidentInPeriod
          [] k = 4 -> last.args.amount_requested <= 0
          [] k = 5 -> stored /\ last.args.amount_requested
                                    > policies[pid].coverage_amount
          [] k = 6 -> \/ Blank(last.args.description)
                      \/ Blank(last.args.incident_description)

FirstViolated == CHOOSE k \in 1..6 : Violated(k) /\ \A j \in 1..(k - 1) : ~Violated(j)

\* What submit_claim raises for precondition k.
Reported(k) ==
    LET pid == last.args.policy_id
    IN  CASE k = 1 -> <<"Policy with ID ">> \o UuidStr(pid) \o <<" not found">>
          [] k = 2 -> <<"Policy ">> \o PolicyNumber(pid)
                        \o <<" is not active. Current status: ",
                             policies[pid].status>>
          [] k = 3 -> <<"Claim incident date (",
                        Today(last.args.incident_date),
                        ") must be within policy period (",
                        policies[pid].start_date, " to ",
                        policies[pid].end_date, ")">>
          [] k = 4 -> <<"Claim amount must be positive">>
          [] k = 5 -> <<"Claim amount (", last.args.amount_requested,
                        ") exceeds policy coverage (",
                        policies[pid].coverage_amount, ")">>
          [] k = 6 -> IF Blank(last.args.description)
                        THEN <<"Description is required">>
                        ELSE <<"Incident description is required">>

SeveralViolated == Cardinality({k \in 1..6 : Violated(k)}) > 1

\* C10 as stated: a submission that violates more than one precondition is
\* answered with the failure of the first violated one in the order (1) to
\* (6), and nothing of it is persisted.
C10_FirstViolatedReported ==
    (last.op = "submit_claim" /\ last.gw = "ok" /\ SeveralViolated) =>
        /\ last.outcome # "returned"
        /\ last.err.msg = SubmitFailure(Reported(FirstViolated)).msg
        /\ claims = last.pre[1]

\* C10 amended: amount_requested <= 0, an empty description and a future
\* incident are refused by ClaimCreate before any precondition is looked at;
\* for a payload that is a valid ClaimCreate, submit_claim raises ValueError
\* for the first violated precondition in the order (1), (2), (3), (5), (6)
\* (precondition (4) cannot fail there), and no partial effect remains.
C10_FirstViolatedOfValidPayload ==
    (last.op = "submit_claim" /\ last.gw # "lookup_fails"
        /\ \E k \in 1..6 : Violated(k)) =>
        /\ last.outcome \in {"raised", "rejected"}
        /\ claims = last.pre[1]
        /\ last.outcome = "raised" =>
                /\ FirstViolated # 4
                /\ last.err = SubmitFailure(Reported(FirstViolated))
        /\ last.outcome = "rejected" =>
                \/ last.args.amount_requested <= 0
                \/ last.args.incident_date > now
                \/ last.args.description = <<>>
                \/ last.args.incident_description = <<>>

\* The policy is not ACTIVE, the amount is above its coverage and a
\* description is blank: the status is what is reported.
C10_Witness ==
    /\ last.op = "submit_claim"
    /\ last.outcome = "raised"
    /\ last.gw = "ok"
    /\ Violated(2)
    /\ Violated(5)
    /\ Violated(6)

\* ------------------------------------------------------------------- C11..C20
\* The store as the last delete operation found it.
StoreBefore == last.pre[1]

DeleteOps == {"delete_claim", "delete_policy", "delete_policyholder"}

\* C11: a successful submit_claim adds exactly one claim, attached to the
\* given policy, with status SUBMITTED, no adjuster, no settlement amount, no
\* settlement date and no documents; reading the claim back by its identity
\* gives status SUBMITTED.
C11_SubmittedClaimStored ==
    (last.op = "submit_claim" /\ last.outcome = "returned") =>
        /\ last.id \notin DOMAIN last.pre[1]
        /\ DOMAIN claims = DOMAIN last.pre[1] \cup {last.id}
        /\ \A c \in DOMAIN last.pre[1] : claims[c] = last.pre[1][c]
        /\ claims[last.id].id = last.id
        /\ claims[last.id].policy_id = last.args.policy_id
        /\ last.args.policy_id \in DOMAIN policies
        /\ claims[last.id].status = "SUBMITTED"
        /\ claims[last.id].assigned_adjuster_id = None
        /\ claims[last.id].settlement_amount = None
        /\ claims[last.id].settlement_date = None
        /\ GetClaimDocuments(last.id) = {}

\* A second claim is submitted while the first one has moved on.
C11_Witness ==
    /\ last.op = "submit_claim"
    /\ last.outcome = "returned"
    /\ last.gw = "ok"
    /\ \E c \in DOMAIN last.pre[1] : last.pre[1][c].status = "APPROVED"

\* C12: every stored claim has amount_requested > 0 and a description and an
\* incident_description with a character that is not whitespace.
C12_StoredClaimFields ==
    \A c \in DOMAIN claims :
        /\ claims[c].amount_requested > 0
        /\ \E i \in 1..Len(claims[c].description) :
                claims[c].description[i] # " "
        /\ \E i \in 1..Len(claims[c].incident_description) :
                claims[c].incident_description[i] # " "

\* A claim was stored by a submission whose payload was looked at in full.
C12_Witness ==
    /\ last.op = "submit_claim"
    /\ last.outcome = "returned"
    /\ last.id \in DOMAIN claims
    /\ claims[last.id].amount_requested = MaxAmount

\* C13: delete_claim on a claim that is REJECTED or SETTLED succeeds and the
\* claim is gone afterwards (when the session does not fail); on a claim in
\* any other status it fails and the claim stays as it was.
C13_DeleteClaimByStatus ==
    (last.op = "delete_claim"
        /\ last.args.claim_id \in DOMAIN StoreBefore.claims) =>
        LET cid == last.args.claim_id
            before == StoreBefore.claims[cid]
        IN  IF before.status \in {"REJECTED", "SETTLED"}
            THEN last.gw = "ok" =>
                    /\ last.outcome = "returned"
                    /\ cid \notin DOMAIN claims
            ELSE /\ last.outcome = "raised"
                 /\ cid \in DOMAIN claims
                 /\ claims[cid] = before

\* A settled claim is deleted.
C13_Witness ==
    /\ last.op = "delete_claim"
    /\ last.outcome = "returned"
    /\ last.args.claim_id \in DOMAIN StoreBefore.claims
    /\ StoreBefore.claims[last.args.claim_id].status = "SETTLED"
    /\ last.args.claim_id \notin DOMAIN claims

\* The claims that the last delete operation took out of the store.
RemovedClaims == DOMAIN StoreBefore.claims \ DOMAIN claims

C15_DeletePolicyByClaims ==
    (last.op = "delete_policy"
        /\ last.args.policy_id \in DOMAIN StoreBefore.policies) =>
        LET pid == last.args.policy_id
            open == {c \in DOMAIN StoreBefore.claims :
                        /\ StoreBefore.claims[c].policy_id = pid
                        /\ StoreBefore.claims[c].status
                                \in {"SUBMITTED", "UNDER_REVIEW"}}
        IN  IF open # {}
            THEN /\ last.outcome = "raised"
                 /\ policies = StoreBefore.policies
                 /\ claims = StoreBefore.claims
            ELSE last.gw = "ok" =>
                    /\ last.outcome = "returned"
                    /\ pid \notin DOMAIN policies

\* The policy has two open claims, one SUBMITTED and one UNDER_REVIEW, and
\* its deletion is refused.
C15_Witness ==
    /\ last.op = "delete_policy"
    /\ last.outcome = "raised"
    /\ last.gw = "ok"
    /\ \E c, d \in DOMAIN claims :
            /\ claims[c].policy_id = last.args.policy_id
            /\ claims[d].policy_id = last.args.policy_id
            /\ claims[c].status = "SUBMITTED"
            /\ claims[d].status = "UNDER_REVIEW"

\* C16: delete_policyholder fails, and leaves the policyholder and the
\* policies, when one or several of its policies are ACTIVE; when all of its
\* policies are CANCELLED or EXPIRED it succeeds (when the session does not
\* fail) and the policyholder is gone.
C16_DeletePolicyholderByPolicies ==
    (last.op = "delete_policyholder"
        /\ last.args.policyholder_id \in DOMAIN StoreBefore.policyholders) =>
        LET hid == last.args.policyholder_id
            own == {p \in DOMAIN StoreBefore.policies :
                        StoreBefore.policies[p].policyholder_id = hid}
        IN  IF \E p \in own : StoreBefore.policies[p].status = "ACTIVE"
            THEN /\ last.outcome = "raised"
                 /\ policyholders = StoreBefore.policyholders
                 /\ policies = StoreBefore.policies
            ELSE IF \A p \in own : StoreBefore.policies[p].status
                                        \in {"CANCELLED", "EXPIRED"}
            THEN last.gw = "ok" =>
                    /\ last.outcome = "returned"
                    /\ hid \notin DOMAIN policyholders
            ELSE TRUE

\* The policyholder has two ACTIVE policies and its deletion is refused.
C16_Witness ==
    /\ last.op = "delete_policyholder"
    /\ last.outcome = "raised"
    /\ last.gw = "ok"
    /\ \E p, q \in DOMAIN policies :
            /\ p # q
            /\ policies[p].policyholder_id = last.args.policyholder_id
            /\ policies[q].policyholder_id = last.args.policyholder_id
            /\ policies[p].status = "ACTIVE"
            /\ policies[q].status = "ACTIVE"

\* C17: every stored claim belongs to a stored policy, every stored policy to
\* a stored policyholder and every stored document to a stored claim: once an
\* owner has been deleted, nothing it owned is left.
C17_NoOrphans ==
    /\ \A p \in DOMAIN policies :
            policies[p].policyholder_id \in DOMAIN policyholders
    /\ \A c \in DOMAIN claims : claims[c].policy_id \in DOMAIN policies
    /\ \A d \in DOMAIN documents : documents[d].claim_id \in DOMAIN claims

\* A policyholder is deleted together with two policies and their claims.
C17_Witness ==
    /\ last.op = "delete_policyholder"
    /\ last.outcome = "returned"
    /\ Cardinality(DOMAIN StoreBefore.policies) = 2
    /\ Cardinality(DOMAIN StoreBefore.claims) = 2
    /\ \E c, d \in DOMAIN StoreBefore.claims :
            StoreBefore.claims[c].policy_id # StoreBefore.claims[d].policy_id
    /\ DOMAIN policies = {}
    /\ DOMAIN claims = {}

\* C18: create_policy with a policyholder_id that names no stored
\* policyholder fails and stores nothing; a policy that create_policy stored
\* names a policyholder that is stored.
C18_PolicyNeedsPolicyholder ==
    /\ (last.op = "create_policy"
            /\ last.args.policyholder_id \notin DOMAIN policyholders) =>
            /\ last.outcome \in {"raised", "rejected"}
            /\ policies = last.pre[1]
    /\ (last.op = "create_policy" /\ last.outcome = "returned") =>
            /\ last.id \in DOMAIN policies
            /\ policies[last.id].policyholder_id = last.args.policyholder_id
            /\ last.args.policyholder_id \in DOMAIN policyholders

\* A payload with nothing wrong but the policyholder, and a session that
\* does not fail.
C18_Witness ==
    /\ last.op = "create_policy"
    /\ last.outcome = "raised"
    /\ last.gw = "ok"
    /\ last.args.policyholder_id \notin DOMAIN policyholders
    /\ last.args.start_date < last.args.end_date
    /\ last.args.coverage_amount > 0
    /\ last.args.premium > 0
    /\ last.args.deductible >= 0
    /\ last.err = Wrapped("Failed to create policy: ",
                          <<"Policyholder not found">>)

C21_FailureLeavesStore ==
    [][(last'.outcome \in {"raised", "rejected"}) =>
            /\ policyholders' = policyholders
            /\ policies' = policies
            /\ claims' = claims
            /\ documents' = documents]_vars

C24_SettlementDateOnlyBySettling ==
    /\ \A c \in DOMAIN claims :
            claims[c].status = "SETTLED" => claims[c].settlement_date # None
    /\ last.op = "submit_claim" =>
            \A c \in DOMAIN claims \ DOMAIN last.pre[1] :
                claims[c].settlement_date = None
    /\ (last.op = "process_claim" /\ last.pre # None) =>
            LET cid == last.args.claim_id
            IN  claims[cid].settlement_date # last.pre[1].settlement_date =>
                    /\ last.outcome = "returned"
                    /\ last.args.new_status = "SETTLED"
                    /\ claims[cid].status = "SETTLED"
                    /\ claims[cid].settlement_date = Some(now)

\* An approved claim is settled after the clock has moved.
C24_Witness ==
    /\ last.op = "process_claim"
    /\ last.outcome = "returned"
    /\ last.args.new_status = "SETTLED"
    /\ last.pre[1].settlement_date = None
    /\ now > 0
    /\ claims[last.args.claim_id].settlement_date = Some(now)

\* C25: a successful process_claim, update_policy or update_policyholder
\* sets updated_at of the row to the current time, which is not earlier than
\* the value before the call nor than created_at.
C25_UpdatedAtRefreshed ==
    /\ \A c \in DOMAIN claims :
            /\ claims[c].created_at <= claims[c].updated_at
            /\ claims[c].updated_at <= now
    /\ \A p \in DOMAIN policies :
            /\ policies[p].created_at <= policies[p].updated_at
            /\ policies[p].updated_at <= now
    /\ \A h \in DOMAIN policyholders :
            /\ policyholders[h].created_at <= policyholders[h].updated_at
            /\ policyholders[h].updated_at <= now
    /\ (last.op = "process_claim" /\ last.outcome = "returned") =>
            /\ claims[last.id].updated_at = now
            /\ claims[last.id].updated_at >= last.pre[1].updated_at
    /\ (last.op = "update_policy" /\ last.outcome = "returned") =>
            policies[last.id].updated_at = now
    /\ (last.op = "update_policyholder" /\ last.outcome = "returned") =>
            /\ policyholders[last.id].updated_at = now
            /\ policyholders[last.id].updated_at
                    >= last.pre[1][last.id].updated_at

\* A claim is processed later than it was processed before.
C25_Witness ==
    /\ last.op = "process_claim"
    /\ last.outcome = "returned"
    /\ last.pre[1].updated_at > last.pre[1].created_at
    /\ claims[last.id].updated_at > last.pre[1].updated_at

\* C26: the policy_number of every stored policy is "POL-" and the first 8
\* characters of its identity, the claim_number of every stored claim is
\* "CLM-" and the first 8 characters of its identity, whatever update_policy
\* and process_claim have done since.
C26_NumbersFromIdentity ==
    /\ \A p \in DOMAIN policies :
            /\ policies[p].id = p
            /\ Len(policies[p].policy_number) = 9
            /\ policies[p].policy_number[1] = "POL-"
            /\ \A i \in 1..8 : policies[p].policy_number[i + 1] = UuidStr(p)[i]
    /\ \A c \in DOMAIN claims :
            /\ claims[c].id = c
            /\ Len(claims[c].claim_number) = 9
            /\ claims[c].claim_number[1] = "CLM-"
            /\ \A i \in 1..8 : claims[c].claim_number[i + 1] = UuidStr(c)[i]

\* The policy has been updated and its claim processed.
C26_Witness ==
    /\ last.op = "update_policy"
    /\ last.outcome = "returned"
    /\ policies[last.id].status = "CANCELLED"
    /\ \E c \in DOMAIN claims : claims[c].status = "SETTLED"

\* C27: process_claim changes no field of the claim but status, updated_at,
\* assigned_adjuster_id and settlement_date; assigned_adjuster_id changes
\* only in a successful transition to UNDER_REVIEW, and no other transition
\* clears it or replaces it, with or without an adjuster in the request.
C27_ProcessClaimFrame ==
    (last.op = "process_claim" /\ last.pre # None) =>
        LET before == last.pre[1]
            after == claims[last.args.claim_id]
        IN  /\ \A f \in DOMAIN before \ {"status", "updated_at",
                                         "assigned_adjuster_id",
                                         "settlement_date"} :
                    after[f] = before[f]
            /\ after.assigned_adjuster_id # before.assigned_adjuster_id =>
                    /\ last.outcome = "returned"
                    /\ last.args.new_status = "UNDER_REVIEW"
            /\ (last.outcome = "returned"
                    /\ last.args.new_status = "UNDER_REVIEW") =>
                    after.assigned_adjuster_id = last.args.adjuster_id

\* A claim that was never in review is approved by a request that names an
\* adjuster: no adjuster is stored.
C27_Witness ==
    /\ last.op = "process_claim"
    /\ last.outcome = "returned"
    /\ last.args.new_status = "APPROVED"
    /\ last.args.adjuster_id # None
    /\ last.pre[1].assigned_adjuster_id = None
    /\ claims[last.args.claim_id].assigned_adjuster_id = None

\* C28: the update of a claim status answers 200 for a legal transition of a
\* stored claim, 400 for an illegal one (UNDER_REVIEW without adjuster,
\* SETTLED from a status other than APPROVED) and 404 when the claim is not
\* stored.
C28_UpdateStatusResponses ==
    last.op = "update_claim_status" =>
        LET cid == last.args.claim_id
        IN  IF cid \notin DOMAIN claims THEN Response = HTTP_404_NOT_FOUND
            ELSE IF ProcessClaimError(claims[cid], last.args.new_status,
                                      last.args.adjuster_id) # <<>>
                THEN Response = HTTP_400_BAD_REQUEST
            ELSE Response = HTTP_200_OK

\* C29: the reads by identity of policyholder, policy and claim answer 200
\* when the identity is stored and 404 when it is not.
C29_GetResponses ==
    (last.op \in GetOps /\ last.gw = "ok") =>
        LET table == IF last.op = "get_policyholder" THEN policyholders
                     ELSE IF last.op = "get_policy" THEN policies
                     ELSE claims
        IN  IF last.args.id \in DOMAIN table THEN Response = HTTP_200_OK
            ELSE Response = HTTP_404_NOT_FOUND

\* The last use-case failed in the session (lookup, write or commit).
GatewayFailed ==
    /\ last.outcome = "raised"
    /\ \E i \in 1..Len(last.err.msg) : last.err.msg[i] = "SQLAlchemyError"

\* C30: a create that fails on validation or on a business rule is answered
\* with 400, one that fails in the gateway with 500.
C30_CreateFailureClasses ==
    (last.op \in CreateOps /\ last.outcome \in {"raised", "rejected"}) =>
        IF GatewayFailed THEN Response = HTTP_500_INTERNAL_SERVER_ERROR
        ELSE Response = HTTP_400_BAD_REQUEST

\* =============================================================== C31..C38
\* The store a gateway call acts on: the dictionary of InMemoryRepository,
\* the table policyholders for PostgresRepository[Policyholder].
GatewayStore ==
    IF last.op \in {"InMemoryRepository.create", "InMemoryRepository.read",
                    "InMemoryRepository.update", "InMemoryRepository.delete"}
      THEN storage
    ELSE policyholders

GatewayCreateOps == {"InMemoryRepository.create", "PostgresRepository.create"}

GatewayUpdateOps == {"InMemoryRepository.update", "PostgresRepository.update"}

\* The entity as create stores it: PostgresRepository stamps created_at.
StoredByCreate ==
    IF last.op = "PostgresRepository.create"
      THEN Created(last.args.entity)
    ELSE last.args.entity

\* C31 as stated: gateway create of an entity whose identity is stored
\* already fails with ConflictError and leaves the stored entity as it was;
\* create of an entity with a fresh identity stores it, and read(id) returns
\* it.
C31_CreateConflictError ==
    (last.op \in GatewayCreateOps /\ "id" \in DOMAIN last.args.entity) =>
        IF last.args.entity.id \in DOMAIN StoreBefore
          THEN /\ last.outcome = "raised"
               /\ last.err.type = "ConflictError"
               /\ GatewayStore = StoreBefore
        ELSE last.gw = "ok" =>
                /\ last.outcome = "returned"
                /\ Get(GatewayStore, last.args.entity.id)
                        = Some(StoredByCreate)

\* C31 amended: gateway create of an entity whose identity is stored already
\* raises ValueError ("Entity with ID <id> already exists" in memory,
\* "Failed to create entity: ..." over the database) and leaves the store as
\* it was; create of an entity with a fresh identity stores it, when the
\* database does not fail, and read(id) returns it.
C31_CreateDuplicateRefused ==
    (last.op \in GatewayCreateOps /\ "id" \in DOMAIN last.args.entity) =>
        IF last.args.entity.id \in DOMAIN StoreBefore
          THEN /\ last.outcome = "raised"
               /\ last.err.type = "ValueError"
               /\ last.err.msg =
                    IF last.op = "InMemoryRepository.create"
                      THEN <<"Entity with ID ">>
                               \o UuidStr(last.args.entity.id)
                               \o <<" already exists">>
                    ELSE <<"Failed to create entity: ", "IntegrityError">>
               /\ GatewayStore = StoreBefore
        ELSE last.gw = "ok" =>
                /\ last.outcome = "returned"
                /\ Get(GatewayStore, last.args.entity.id)
                        = Some(StoredByCreate)
                /\ \A id \in DOMAIN StoreBefore :
                        Get(GatewayStore, id) = Some(StoreBefore[id])

\* A create in memory was refused for an entity that differs from the one
\* stored under its identity.
C31_Witness ==
    /\ last.op = "InMemoryRepository.create"
    /\ last.outcome = "raised"
    /\ last.args.entity.id \in DOMAIN storage
    /\ storage[last.args.entity.id] # last.args.entity

C33_UnderReviewHasAdjuster ==
    \A cid \in DOMAIN claims :
        claims[cid].status = "UNDER_REVIEW" =>
            claims[cid].assigned_adjuster_id # None

\* A claim is UNDER_REVIEW after a request that named no adjuster was
\* handled: stored is the adjuster of an earlier request.
C33_Witness ==
    /\ last.op = "process_claim"
    /\ last.outcome = "raised"
    /\ last.gw = "ok"
    /\ last.args.new_status = "UNDER_REVIEW"
    /\ last.args.adjuster_id = None
    /\ \E cid \in DOMAIN claims : claims[cid].status = "UNDER_REVIEW"

\* C34: create_policy stores every new policy with status ACTIVE, whatever
\* status its payload carries, and the policy it returns accepts submissions
\* at once: a submission against it that is valid in every other respect is
\* stored.  No policy is updated after its creation here.
C34_CreatedPolicyActive ==
    /\ (last.op = "create_policy" /\ last.outcome = "returned") =>
            /\ policies[last.id].status = "ACTIVE"
            /\ \A t \in Ticks, amt \in Amounts :
                    (/\ InPolicyPeriod(policies[last.id], t)
                     /\ t <= now
                     /\ amt > 0
                     /\ amt <= policies[last.id].coverage_amount) =>
                        SubmitClaimError(last.id, t, amt, <<"a">>, <<"a">>)
                            = <<>>
    /\ (/\ SubmittedAgainstPolicy
         /\ last.gw = "ok"
         /\ last.args.incident_date <= now
         /\ IncidentInPeriod
         /\ last.args.amount_requested > 0
         /\ last.args.amount_requested
                <= policies[last.args.policy_id].coverage_amount) =>
            last.outcome = "returned"

\* A policy was created from a payload whose status was not ACTIVE, and a
\* submission against it has a day of its period to fall on.
C34_Witness ==
    /\ last.op = "create_policy"
    /\ last.outcome = "returned"
    /\ last.args.status = "CANCELLED"
    /\ \E t \in Ticks : t <= now /\ InPolicyPeriod(policies[last.id], t)

\* C35: no use-case writes settlement_amount or notes of a claim: in every
\* reachable state every stored claim, the SETTLED ones included, has no
\* settlement_amount and an empty list of notes, whatever settlement_amount
\* and notes the payloads of process_claim carried.
C35_SettlementNeverWritten ==
    \A cid \in DOMAIN claims :
        /\ claims[cid].settlement_amount = None
        /\ claims[cid].notes = <<>>

\* A claim was settled by a payload carrying a settlement_amount and notes.
C35_Witness ==
    /\ last.op = "process_claim"
    /\ last.outcome = "returned"
    /\ last.args.new_status = "SETTLED"
    /\ last.args.settlement_amount # None
    /\ last.args.notes # None
    /\ claims[last.id].status = "SETTLED"

WithinPolicy(claim, policy) ==
    /\ claim.amount_requested <= policy.coverage_amount
    /\ policy.start_date <= Today(claim.incident_date)
    /\ Today(claim.incident_date) <= policy.end_date

C38_UnknownClaimAbsent ==
    [][(/\ last'.op \in {"process_claim", "delete_claim"}
        /\ last'.outcome # "rejected"
        /\ last'.gw # "lookup_fails"
        /\ last'.args.claim_id \notin DOMAIN claims) =>
            /\ last'.outcome = "absent"
            /\ last'.err = NoError
            /\ policyholders' = policyholders
            /\ policies' = policies
            /\ claims' = claims
            /\ documents' = documents]_vars

\* process_claim has returned None for an identity that is not in the
\* store, while a claim is stored under another identity.
C38_Witness ==
    /\ last.op = "process_claim"
    /\ last.outcome = "absent"
    /\ last.args.claim_id \notin DOMAIN claims
    /\ claims # <<>>

=============================================================================
